---- MODULE Spec2Model ----
(***************************************************************************)
(* State-machine model of the L9945 bridge-driver class (src/L9945.h):     *)
(* the two-phase SPI transfer with its parity check and sticky failure     *)
(* flag, the read and write caches, reset(), and the diagnostics pass      *)
(* (diagnose / DiagnosticsResult::perform) with its snapshot.              *)
(*                                                                         *)
(* A uint32_t is modelled as the set of the positions (0..31) of its one   *)
(* bits, a uint8_t as a set of positions 0..7, so that &, |, ^, ~, << and  *)
(* >> are exact on all 32 bits.                                            *)
(***************************************************************************)
EXTENDS Naturals, Sequences, FiniteSets, TLC

VARIABLES
  mReadCache,     \* std::array<uint32_t, 14>: index 0..13 -> word
  mWriteCache,    \* std::array<uint32_t, 14>: index 0..13 -> word
  mSpiFailed,     \* the sticky failure flag
  mWriteDelay,    \* one-shot delay (ms) of the next write
  mTestPerformed,     \* mLastResult.mTestPerformed
  mChannelsDiagnosed, \* mLastResult.mChannelsDiagnosed: the indices 0..7 that are true
  mResultReadCache,   \* mLastResult.mReadCache: the snapshot of the registers
  csActive,       \* interface: level set by the last enableSpiTransfer
  allEnabled,     \* interface: last enableAll command ("unknown" before any)
  resetActive,    \* interface: level set by the last enableReset
  throws,         \* interface: whether its fatalError throws (fixed per platform)
  hw,             \* interface calls made by the last public operation, in order
  xfers,          \* spiTransfer calls made by the last public operation, in order
  thrown,         \* the last public operation was left by an exception
  ret,            \* value returned by the last public operation
  lastOp,         \* the last public operation and its argument
  sinkCalls,      \* fatalError calls since construction or the last reset() began
  copy,           \* the caller's DiagnosticsResult objects copied from diagnose()'s
                  \* reference: none or one
  race,           \* two threads inside read() on this driver at once: where each
                  \* is, the transmit buffer they share, the device's pipeline
  pc              \* "returned": a public operation has just ended and the caller
                  \* looks at its outcome; "idle": the caller is about to call

vars == <<mReadCache, mWriteCache, mSpiFailed, mWriteDelay,
          mTestPerformed, mChannelsDiagnosed, mResultReadCache,
          csActive, allEnabled, resetActive, throws, hw, xfers, thrown, ret, lastOp,
          sinkCalls, copy, race, pc>>

---------------------------------------------------------------------------
(* uint32_t / uint8_t arithmetic *)

WordBits == 0..31

Bits16(n) == {i \in 0..15 : (n \div (2^i)) % 2 = 1}

\* the 32-bit literal 0xHHHHLLLL, given as its two 16-bit halves
W(hi, lo) == Bits16(lo) \cup {i + 16 : i \in Bits16(hi)}

BitAnd(a, b) == a \cap b
BitOr(a, b)  == a \cup b
BitXor(a, b) == (a \ b) \cup (b \ a)
BitNot(a)    == WordBits \ a
Shr(a, n)    == {i - n : i \in {j \in a : j >= n}}
Shl(a, n)    == {i + n : i \in {j \in a : j + n <= 31}}

\* static_cast<uint8_t>(w): the low eight bits
ToByte(w) == {i \in w : i <= 7}

---------------------------------------------------------------------------
(* constants of the class *)

cResetDelay     == 10
cSizeofRegister == 4
cRegisterCount  == 14
cNoDelay        == 0

cInvalidResponse == W(0, 0)
cInvalidParity   == W(0, 1)

cMaskRead   == Shl(W(0, 1), 27)
cMaskParity == W(0, 1)

cCommand0  == 0
cCommand1  == 1
cCommand4  == 4
cCommand9  == 9
cCommand10 == 10
cCommand13 == 13

cChannelCount == 8

\* enum class Bridge, as the offset bridge2command1458 adds
cBridge1 == 0
cBridge2 == 4

cMaskChannelDiagnostics   == W(\h0001, \h0101)
cMask0enableDiagnostics   == Shl(W(0, 1), 25)
cMask0spiInputSelect81    == Shl(W(0, \hFF), 17)
cMask0protectionDisable81 == Shl(W(0, \hFF), 9)
cMask0outputVcompared81   == Shl(W(0, \hFF), 1)
cMask4bridge1config       == Shl(W(0, 1), 26)
cMask9diagOffPulse81      == Shl(W(0, \hFF), 9)
cMask9diagOnPulse81       == Shl(W(0, \hFF), 1)
cMask9diagnosticBit2ch81  == Shl(W(0, \hFF), 17)
cMask9diagnosticBit1ch81  == Shl(W(0, \hFF), 9)
cMask9diagnosticBit0ch81  == Shl(W(0, \hFF), 1)
cMask10bistHwscRequest    == Shl(W(0, 3), 5)
cMask10bistDone           == Shl(W(0, 1), 14)
cMask10bistDisableLatch   == Shl(W(0, 1), 13)
cMask81tBlankOc81         == Shl(W(0, 7), 9)
cMask81lsHsConfig81       == Shl(W(0, 1), 2)

\* RequestBist::cYes, ChannelOcBlankTime::c97us / c142us, ChannelSide::cLs / cHs
cYes   == Shl(W(0, 1), 5)
c97us  == Shl(W(0, 6), 9)
c142us == Shl(W(0, 7), 9)
cLs    == W(0, 0)
cHs    == Shl(W(0, 1), 2)

\* enum class DiagnosticsTest
cNone     == 0
cAuto     == 1
cOffPulse == 2
cOnPulse  == 3
cBist     == 4
DiagnosticsTest == {cNone, cAuto, cOffPulse, cOnPulse, cBist}

\* DiagnosticsResult::cWaitForTest, indexed by the test
cWaitForTest == <<0, 0, 1, 1, 3>>

cOk      == "cOk"
cError   == "cError"
cBusy    == "cBusy"
cTimeout == "cTimeout"
SpiResult == {cOk, cError, cBusy, cTimeout}

cCommunication == "cCommunication"
cParity        == "cParity"

cInitialRegisterValues ==
  << W(\b0000100000000000, \b0000000000000001),
     W(\h1EC0, \h0001),
     W(\h2EC0, \h0001),
     W(\h3BC0, \h0000),
     W(\h48C0, \h0001),
     W(\h5EC0, \h0000),
     W(\h6EC0, \h0000),
     W(\h7AC0, \h0000),
     W(\h88C0, \h0001),
     W(\b1001101010101011, \b1111111111111110),
     W(\b1010101010101010, \b1010101010000000),
     W(\hBAAA, \hAAAA),
     W(\hCAAA, \hAAAB),
     W(\hDAAA, \hAAAA) >>

cFixedPatternValues ==
  << W(\h0000, \h0000),
     W(\h1000, \h0000),
     W(\h2000, \h0000),
     W(\h3000, \h0000),
     W(\h4000, \h0000),
     W(\h5000, \h0000),
     W(\h6000, \h0000),
     W(\h7000, \h0000),
     W(\h8000, \h0000),
     W(\b1001001010101010, \b0000000000000000),
     W(\b1010001010101010, \b1010101010000000),
     W(\hBAAA, \hAAAA),
     W(\hCAAA, \hAAAB),
     W(\hDAAA, \hAAAA) >>

cFixedPatternMasks ==
  << W(\hF000, \h0000),
     W(\hF000, \h0000),
     W(\hF000, \h0000),
     W(\hF000, \h0000),
     W(\hF000, \h0000),
     W(\hF000, \h0000),
     W(\hF100, \h0000),
     W(\hF100, \h0000),
     W(\hF000, \h0000),
     W(\b1111011111111110, \b0000000000000000),
     W(\b1111011111111111, \b1111111110000000),
     W(\hFFFF, \hFFFF),
     W(\hFFFF, \hFFFF),
     W(\hFFFF, \hFFFF) >>

\* mDataOut[4..7] = { 0xf0, 0, 0, 1 }: the phase-2 word, never rewritten
cDummyBytes == << ToByte(W(0, \hF0)), ToByte(W(0, 0)), ToByte(W(0, 0)), ToByte(W(0, 1)) >>

---------------------------------------------------------------------------
(* The driver and its interface as one record, threaded through the calls.   *)
(* mDataOut is uint8_t[8]: the phase-1 bytes 1..4 and the phase-2 (dummy)    *)
(* bytes 5..8; mDataIn is uint8_t[8], of which only bytes 1..4 are written.  *)
(* Every call rewrites mDataOut[0..3] (prepareDataToSend) and mDataIn[0..3]  *)
(* (spiTransmitReceive) before it reads them, so what a call left in them is *)
(* not carried over: each call starts from the constructor's contents.       *)

InitialDataOut ==
  [i \in 1..8 |-> IF i <= cSizeofRegister THEN {} ELSE cDummyBytes[i - cSizeofRegister]]

InitialDataIn == [i \in 1..8 |-> {}]

Drv ==
  [ mReadCache |-> mReadCache, mWriteCache |-> mWriteCache, mSpiFailed |-> mSpiFailed,
    mWriteDelay |-> mWriteDelay, mTestPerformed |-> mTestPerformed,
    mChannelsDiagnosed |-> mChannelsDiagnosed, mResultReadCache |-> mResultReadCache,
    willTest |-> {}, mDataOut |-> InitialDataOut, mDataIn |-> InitialDataIn,
    csActive |-> csActive, allEnabled |-> allEnabled, resetActive |-> resetActive,
    throws |-> throws, hw |-> << >>, xfers |-> << >>, thrown |-> FALSE,
    ret |-> "void", x |-> << >>, loc |-> << >> ]

\* one call of the interface, logged with the driver state it was made in
Called(s, op, arg) ==
  [s EXCEPT !.hw = Append(@, [op |-> op, arg |-> arg,
                              failed |-> s.mSpiFailed, cs |-> s.csActive])]

(* tInterface: what the driver can observe of each member *)
delayMs(s, aDelay)           == Called(s, "delayMs", aDelay)
enableReset(s, aEnable)      == [Called(s, "enableReset", aEnable) EXCEPT !.resetActive = aEnable]
enableSpiTransfer(s, aEnable) == [Called(s, "enableSpiTransfer", aEnable) EXCEPT !.csActive = aEnable]
enableAll(s, aEnable) ==
  [Called(s, "enableAll", aEnable) EXCEPT !.allEnabled = IF aEnable THEN "enabled" ELSE "disabled"]

\* fatalError returns, or throws when the platform chose exceptions
fatalError(s, aException) ==
  [Called(s, "fatalError", aException) EXCEPT !.thrown = s.throws]

\* spiTransmitReceive(aTxData, aRxData, 4): aRxData (mDataIn[0..3]) is filled
\* with the four bytes aRx when the exchange ends cOk
spiTransmitReceive(s, aTx, aResult, aRx) ==
  [Called(s, "spiTransmitReceive", [tx |-> aTx, res |-> aResult])
     EXCEPT !.mDataIn = IF aResult = cOk
                        THEN [i \in 1..8 |-> IF i <= cSizeofRegister THEN aRx[i] ELSE @[i]]
                        ELSE @]

---------------------------------------------------------------------------
(* l9945::calculateParity and the byte buffers *)

\* one line of the fold: result ^= result >> n
XorShift(a, n) == BitXor(a, Shr(a, n))

\* the parity fold without the final complement
calculateParity_Even(aIn) ==
  BitAnd(XorShift(XorShift(XorShift(XorShift(XorShift(aIn, 1), 2), 4), 8), 16), W(0, 1))

\* constexpr uint32_t calculateParity(aIn): 1 when aIn has an even number of
\* bits set, 0 when odd
calculateParity(aIn) ==
  BitAnd(BitNot(XorShift(XorShift(XorShift(XorShift(XorShift(aIn, 1), 2), 4), 8), 16)), W(0, 1))

\* the four bytes of a word, most significant first
BytesOf(aWord) ==
  << ToByte(Shr(aWord, 24)), ToByte(Shr(aWord, 16)), ToByte(Shr(aWord, 8)), ToByte(aWord) >>

\* (b[0] << 24) | (b[1] << 16) | (b[2] << 8) | b[3]
WordOf(aBytes) ==
  BitOr(BitOr(Shl(aBytes[1], 24), Shl(aBytes[2], 16)), BitOr(Shl(aBytes[3], 8), aBytes[4]))

\* prepareDataToSend without the parity adjustment
prepareDataToSend_Raw(s, aValue) ==
  [s EXCEPT !.mDataOut = [i \in 1..8 |-> IF i <= cSizeofRegister THEN BytesOf(aValue)[i] ELSE @[i]]]

\* prepareDataToSend flipping bit 0 in the opposite case
prepareDataToSend_FlipOdd(s, aValue) ==
  prepareDataToSend_Raw(s, BitXor(aValue, BitXor(calculateParity(aValue), W(0, 1))))

\* void prepareDataToSend(aValue): bit 0 is flipped when calculateParity says so
prepareDataToSend(s, aValue) ==
  LET actual == BitXor(aValue, calculateParity(aValue))
  IN  [s EXCEPT !.mDataOut = [i \in 1..8 |-> IF i <= cSizeofRegister THEN BytesOf(actual)[i] ELSE @[i]]]

FixedPatternValue(aCommand) == cFixedPatternValues[aCommand + 1]
FixedPatternMask(aCommand)  == cFixedPatternMasks[aCommand + 1]
InitialRegisterValue(aCommand) == cInitialRegisterValues[aCommand + 1]

---------------------------------------------------------------------------
(* What the platform and the device contribute to one spiTransfer:            *)
(*   r1, r2   outcome of the phase-1 / phase-2 spiTransmitReceive             *)
(*   rx1, rx2 the word shifted out by the device during each phase, as a      *)
(*            selector applied to the phase-1 word on the wire                *)
(*   img      the register contents the device holds, for the selector "image" *)
(*   stray    the word an out-of-bounds read of a constant table yields       *)
(*   oob      where an out-of-bounds store to mReadCache lands                *)

RxSelectors == {"echo", "status", "corrupt", "zero"}

\* the word the device answers with
DeviceWord(aSel, aTx, aImg) ==
  CASE aSel = "echo"    -> aTx                          \* same bits back
    [] aSel = "image"   -> aImg                         \* what the register holds
    [] aSel = "status"  -> BitXor(aTx, W(0, \h0006))    \* other contents, two bits differ
    [] aSel = "corrupt" -> BitXor(aTx, W(0, \h0001))    \* one bit flipped on the line
    [] OTHER            -> W(0, 0)                      \* line stuck low

\* mReadCache[aCommand] = aValue; past the end of the array the store is
\* undefined: it lands in the member that follows (mWriteCache) or nowhere
StoreReadCache(s, aCommand, aValue, e) ==
  IF aCommand < cRegisterCount
  THEN [s EXCEPT !.mReadCache[aCommand] = aValue]
  ELSE IF e.oob = "adjacent" /\ aCommand - cRegisterCount < cRegisterCount
       THEN [s EXCEPT !.mWriteCache[aCommand - cRegisterCount] = aValue]
       ELSE s

\* the fault branch reporting first: the flag and the shut-down follow only
\* when fatalError returns
ShutDownAfterReport(t) ==
  IF t.thrown THEN t ELSE enableAll([t EXCEPT !.mSpiFailed = TRUE], FALSE)

Fail_ReportFirst(s, aException) == ShutDownAfterReport(fatalError(s, aException))

\* the fault branch of spiTransfer: flag, shut down, report
Fail(s, aException) ==
  fatalError(enableAll([s EXCEPT !.mSpiFailed = TRUE], FALSE), aException)

\* spiTransfer's fault test without the parity branch
FaultKind_NoParityTest(aFailed, aResult1, aResult2, aWord) ==
  IF aFailed THEN "none"
  ELSE IF aResult1 # cOk \/ aResult2 # cOk THEN cCommunication
  ELSE "none"

\* spiTransfer's fault test without the surrounding `if (!mSpiFailed)`
FaultKind_NoLatchGuard(aFailed, aResult1, aResult2, aWord) ==
  IF aResult1 # cOk \/ aResult2 # cOk THEN cCommunication
  ELSE IF calculateParity(aWord) = cInvalidParity THEN cParity
  ELSE "none"

\* spiTransfer's fault test looking at the second exchange only
FaultKind_SecondOnly(aFailed, aResult1, aResult2, aWord) ==
  IF aFailed THEN "none"
  ELSE IF aResult2 # cOk THEN cCommunication
  ELSE IF calculateParity(aWord) = cInvalidParity THEN cParity
  ELSE "none"

\* which fault, if any, spiTransfer reports after its two exchanges: nothing
\* once the flag is set, else a failed exchange, else a word of invalid parity
FaultKind(aFailed, aResult1, aResult2, aWord) ==
  IF aFailed THEN "none"
  ELSE IF aResult1 # cOk \/ aResult2 # cOk THEN cCommunication
  ELSE IF calculateParity(aWord) = cInvalidParity THEN cParity
  ELSE "none"

(* spiTransfer, statement by statement.  Its locals live in s.loc:           *)
(*   result, spiResult1, spiResult2, success   as in the code                *)
(*   cmd, delay                                the arguments                 *)
(*   failedBefore, mark, tx, exch1, exch2, received, rx, sink                *)
(*                                             what the call record x needs  *)

\* mDataOut and mDataOut + cSizeofRegister
FirstFrame(s)  == SubSeq(s.mDataOut, 1, cSizeofRegister)
SecondFrame(s) == SubSeq(s.mDataOut, cSizeofRegister + 1, 2 * cSizeofRegister)

\* entry: result = cInvalidResponse, spiResult1 = spiResult2 = cOk
Enter(s, aCommand, aDelay) ==
  [s EXCEPT !.loc = [ cmd |-> aCommand, delay |-> aDelay,
                      failedBefore |-> s.mSpiFailed, mark |-> Len(s.hw),
                      tx |-> WordOf(FirstFrame(s)),
                      spiResult1 |-> cOk, spiResult2 |-> cOk, success |-> FALSE,
                      exch1 |-> "none", exch2 |-> "none", received |-> FALSE,
                      result |-> cInvalidResponse, rx |-> cInvalidResponse,
                      sink |-> "none" ]]

\* spiResult1 = <outcome>; success = (spiResult1 == cOk)
Exchanged1(s, aResult) ==
  [s EXCEPT !.loc.spiResult1 = aResult, !.loc.exch1 = aResult,
            !.loc.success = (aResult = cOk)]

\* success = !mSpiFailed && aCommand < cRegisterCount && (spiResult1 = exchange) == cOk
FirstExchange(s, e) ==
  IF ~s.mSpiFailed /\ s.loc.cmd < cRegisterCount
  THEN Exchanged1(spiTransmitReceive(s, FirstFrame(s), e.r1,
                                     BytesOf(DeviceWord(e.rx1, s.loc.tx, e.img))), e.r1)
  ELSE s

\* spiResult2 = <outcome>; if cOk, result = the word in mDataIn[0..3]
Exchanged2(s, aResult) ==
  [s EXCEPT !.loc.spiResult2 = aResult, !.loc.exch2 = aResult,
            !.loc.received = (aResult = cOk),
            !.loc.result = IF aResult = cOk
                           THEN WordOf(SubSeq(s.mDataIn, 1, cSizeofRegister))
                           ELSE @]

\* the second exchange made whatever the first one gave
SecondExchange_Always(s, e) ==
  Exchanged2(spiTransmitReceive(s, SecondFrame(s), e.r2,
                                BytesOf(DeviceWord(e.rx2, s.loc.tx, e.img))), e.r2)

\* if (success && (spiResult2 = exchange) == cOk) result = ...
SecondExchange(s, e) ==
  IF s.loc.success
  THEN Exchanged2(spiTransmitReceive(s, SecondFrame(s), e.r2,
                                     BytesOf(DeviceWord(e.rx2, s.loc.tx, e.img))), e.r2)
  ELSE s

\* the branches of the fault test: on a fault result = cInvalidResponse
Faulted(s, aKind) ==
  IF aKind = "none"
  THEN [s EXCEPT !.loc.rx = s.loc.result]
  ELSE [Fail(s, aKind) EXCEPT !.loc.rx = s.loc.result, !.loc.sink = aKind,
                              !.loc.result = cInvalidResponse]

\* if (!mSpiFailed) { if (results not Ok) ... else if (parity invalid) ... }
CheckFault(s) ==
  Faulted(s, FaultKind(s.mSpiFailed, s.loc.spiResult1, s.loc.spiResult2, s.loc.result))

\* the record of the call: which exchanges ran, what came back, what was
\* reported, and the interface calls made
Describe(s) ==
  [s EXCEPT !.x = [ cmd |-> s.loc.cmd, delay |-> s.loc.delay,
                    failedBefore |-> s.loc.failedBefore,
                    exch1 |-> s.loc.exch1, exch2 |-> s.loc.exch2,
                    tx |-> s.loc.tx, received |-> s.loc.received, rx |-> s.loc.rx,
                    sink |-> s.loc.sink, thrown |-> s.thrown, result |-> s.loc.result,
                    failedAfter |-> s.mSpiFailed,
                    hw |-> SubSeq(s.hw, s.loc.mark + 1, Len(s.hw)) ]]

\* mReadCache[aCommand] = result; return result; (not reached when fatalError threw)
Leave(s, e) ==
  IF s.thrown THEN s
  ELSE [StoreReadCache(s, s.loc.cmd, s.loc.result, e) EXCEPT !.ret = s.loc.result]

\* chip select released unless an exception has left the call
ReleaseUnlessThrown(t) == IF t.thrown THEN t ELSE enableSpiTransfer(t, FALSE)

\* spiTransfer testing for the fault before it releases chip select
spiTransfer_FaultBeforeRelease(s, aCommand, aDelay, e) ==
  Leave(Describe(ReleaseUnlessThrown(CheckFault(
    SecondExchange(
      enableSpiTransfer(
        delayMs(
          enableSpiTransfer(
            FirstExchange(
              enableSpiTransfer(Enter(s, aCommand, aDelay), TRUE),
              e),
            FALSE),
          aDelay),
        TRUE),
      e)))), e)

\* uint32_t spiTransfer(aCommand, aDelay); the result is left in .ret
spiTransfer(s, aCommand, aDelay, e) ==
  Leave(Describe(CheckFault(
    enableSpiTransfer(
      SecondExchange(
        enableSpiTransfer(
          delayMs(
            enableSpiTransfer(
              FirstExchange(
                enableSpiTransfer(Enter(s, aCommand, aDelay), TRUE),
                e),
              FALSE),
            aDelay),
          TRUE),
        e),
      FALSE))), e)

\* the entry of xfers for one read or write call: the transfer it made, what
\* was asked, and which cache entries the whole call changed
Logged(s, t, aKind, aValue) ==
  [t EXCEPT !.xfers = Append(@,
     [ kind |-> aKind, req |-> aValue, x |-> t.x,
       rcChanged |-> {i \in 0..(cRegisterCount - 1) : t.mReadCache[i] # s.mReadCache[i]},
       wcChanged |-> {i \in 0..(cRegisterCount - 1) : t.mWriteCache[i] # s.mWriteCache[i]},
       rcAt |-> IF t.x.cmd < cRegisterCount THEN t.mReadCache[t.x.cmd] ELSE cInvalidResponse,
       wcAt |-> IF t.x.cmd < cRegisterCount THEN t.mWriteCache[t.x.cmd] ELSE cInvalidResponse ])]

\* cFixedPatternValues[aCommand], whatever lies there when aCommand is past the end
PatternAt(aCommand, e) ==
  IF aCommand < cRegisterCount THEN FixedPatternValue(aCommand) ELSE e.stray

\* the command word of read() without the direction bit
toRead_NoReadBit(aPattern) == aPattern

\* the command word of read(): cFixedPatternValues[aCommand] | cMaskRead
toRead(aPattern) == BitOr(aPattern, cMaskRead)

\* uint32_t read(aCommand)
read(s, aCommand, e) ==
  Logged(s,
         spiTransfer(prepareDataToSend(s, toRead(PatternAt(aCommand, e))),
                     aCommand, cNoDelay, e),
         "read", cInvalidResponse)

\* write()'s adjustment without forcing the fixed pattern
toWrite_NoFixedPattern(aCommand, aValue) ==
  BitAnd(aValue, BitNot(cMaskRead))

\* write()'s adjustment without clearing the read bit
toWrite_KeepsReadBit(aCommand, aValue) ==
  BitOr(BitAnd(aValue, BitNot(FixedPatternMask(aCommand))), FixedPatternValue(aCommand))

\* what write() puts into the write cache and on the wire (before parity)
toWrite(aCommand, aValue) ==
  BitOr(BitAnd(aValue, BitNot(BitOr(cMaskRead, FixedPatternMask(aCommand)))),
        FixedPatternValue(aCommand))

\* write() leaving the pending delay in place
TakeWriteDelay_Keep(s) == s

\* uint32_t delay = mWriteDelay; mWriteDelay = cNoDelay; (delay is passed on
\* by write() as the value mWriteDelay had on entry)
TakeWriteDelay(s) == [s EXCEPT !.mWriteDelay = cNoDelay]

\* return spiTransfer(aCommand, delay) != cInvalidResponse
WriteReturn(t) ==
  IF t.thrown THEN t ELSE [t EXCEPT !.ret = (t.ret # cInvalidResponse)]

\* bool write(aCommand, aValue), for aCommand in 0..13: the cache entry is
\* set, the frame prepared, the pending delay taken and zeroed, then the transfer
write(s, aCommand, aValue, e) ==
  Logged(s,
         WriteReturn(
           spiTransfer(
             TakeWriteDelay(
               prepareDataToSend([s EXCEPT !.mWriteCache[aCommand] = toWrite(aCommand, aValue)],
                                 toWrite(aCommand, aValue))),
             aCommand, s.mWriteDelay, e)),
         "write", aValue)

---------------------------------------------------------------------------
(* the public operations *)

\* mReadCache[aCommand] = read(aCommand), with t the state read() left
AssignReadCache(t, aCommand, e) ==
  IF t.thrown THEN t ELSE StoreReadCache(t, aCommand, t.ret, e)

\* return mSpiFailed
ReturnFailed(t) ==
  IF t.thrown THEN t ELSE [t EXCEPT !.ret = t.mSpiFailed]

\* bool readIntoCache(aCommand)
readIntoCache(s, aCommand, e) ==
  ReturnFailed(AssignReadCache(read(s, aCommand, e), aCommand, e))

\* writeFromCache sending the entry of the read cache instead
writeFromCache_FromReadCache(s, aCommand, e) == write(s, aCommand, s.mReadCache[aCommand], e)

\* bool writeFromCache(aCommand), for aCommand in 0..13
writeFromCache(s, aCommand, e) == write(s, aCommand, s.mWriteCache[aCommand], e)

\* the loop of readAllIntoCache ending at the first read that leaves the flag set
RECURSIVE ReadAllFrom_StopOnFailure(_, _, _)
ReadAllFrom_StopOnFailure(s, command, es) ==
  IF s.thrown \/ s.mSpiFailed \/ ~(command < cRegisterCount) THEN s
  ELSE ReadAllFrom_StopOnFailure(
         AssignReadCache(read(s, command, es[command]), command, es[command]),
         command + 1, es)

\* the loop of readAllIntoCache from index command on; its flag `result` is
\* never cleared, so a failed read does not end the loop: only an exception does
RECURSIVE ReadAllFrom(_, _, _)
ReadAllFrom(s, command, es) ==
  IF s.thrown \/ ~(command < cRegisterCount) THEN s
  ELSE ReadAllFrom(AssignReadCache(read(s, command, es[command]), command, es[command]),
                   command + 1, es)

\* bool readAllIntoCache()
readAllIntoCache(s, es) == ReturnFailed(ReadAllFrom(s, 0, es))

\* the loop of writeAllFromCache going on after a write that failed
RECURSIVE WriteAllFrom_GoOn(_, _, _)
WriteAllFrom_GoOn(s, command, es) ==
  IF s.thrown \/ ~(command < cRegisterCount) THEN s
  ELSE WriteAllFrom_GoOn(write(s, command, s.mWriteCache[command], es[command]),
                         command + 1, es)

\* the loop of writeAllFromCache from index command on; the flag `result` is
\* kept in .ret: it is true on entry and, since the loop goes on only while it
\* is true, it equals what the last write returned
RECURSIVE WriteAllFrom(_, _, _)
WriteAllFrom(s, command, es) ==
  IF s.thrown \/ ~(s.ret /\ command < cRegisterCount) THEN s
  ELSE WriteAllFrom(write(s, command, s.mWriteCache[command], es[command]),
                    command + 1, es)

\* bool writeAllFromCache()
writeAllFromCache(s, es) == WriteAllFrom([s EXCEPT !.ret = TRUE], 0, es)

\* toWrite of avoidInitialCommunicationFailure
InitialToWrite13 ==
  BitOr(BitAnd(InitialRegisterValue(cCommand13),
               BitNot(BitOr(cMaskRead, FixedPatternMask(cCommand13)))),
        FixedPatternValue(cCommand13))

\* the two chip-select framed exchanges; neither outcome is looked at
ThrowawayPair(s, e) ==
  enableSpiTransfer(
    spiTransmitReceive(
      enableSpiTransfer(
        enableSpiTransfer(
          spiTransmitReceive(enableSpiTransfer(s, TRUE), FirstFrame(s), e.r1,
                             BytesOf(DeviceWord(e.rx1, WordOf(FirstFrame(s)), e.img))),
          FALSE),
        TRUE),
      SecondFrame(s), e.r2, BytesOf(DeviceWord(e.rx2, WordOf(FirstFrame(s)), e.img))),
    FALSE)

\* avoidInitialCommunicationFailure treating a failed exchange as spiTransfer does
avoidInitialCommunicationFailure_Checked(s, e) ==
  IF e.r1 # cOk \/ e.r2 # cOk
  THEN Fail(ThrowawayPair(prepareDataToSend([s EXCEPT !.mWriteCache[cCommand13] = InitialToWrite13],
                                            InitialToWrite13), e),
            cCommunication)
  ELSE ThrowawayPair(prepareDataToSend([s EXCEPT !.mWriteCache[cCommand13] = InitialToWrite13],
                                       InitialToWrite13), e)

\* void avoidInitialCommunicationFailure()
avoidInitialCommunicationFailure(s, e) ==
  ThrowawayPair(prepareDataToSend([s EXCEPT !.mWriteCache[cCommand13] = InitialToWrite13],
                                  InitialToWrite13), e)

\* std::copy of cInitialRegisterValues into mWriteCache
InitialiseWriteCache(s) ==
  [s EXCEPT !.mWriteCache = [i \in 0..(cRegisterCount - 1) |-> InitialRegisterValue(i)]]

\* reset() without the statement that clears the flag
ClearFailed_Skip(s) == s

\* the point of reset() at which the failure flag is cleared
ClearFailed(s) == [s EXCEPT !.mSpiFailed = FALSE]

\* reset() enabling the outputs whatever the flag says
EnableAfterReset_Always(s) == enableAll(s, TRUE)

\* the last statement of reset()
EnableAfterReset(s) == enableAll(s, ~s.mSpiFailed)

\* leaving reset(), unless fatalError threw out of it
ResetReturn(t) ==
  IF t.thrown THEN t ELSE [EnableAfterReset(t) EXCEPT !.ret = "void"]

\* void reset()
reset(s, e0, es) ==
  ResetReturn(
    writeAllFromCache(
      ClearFailed(
        avoidInitialCommunicationFailure(
          InitialiseWriteCache(
            delayMs(enableReset(delayMs(enableReset(s, TRUE), cResetDelay), FALSE),
                    cResetDelay)),
          e0)),
      es))

---------------------------------------------------------------------------
(* register accessors used by the diagnostics pass *)

\* constexpr uint32_t getRightmost1position(aIn): 32 when no bit is set
getRightmost1position(aIn) ==
  IF aIn = {} THEN 32 ELSE CHOOSE i \in aIn : \A j \in aIn : i <= j

\* the value of a word of fewer than 31 bits as a number, to compare enums
RECURSIVE Value(_)
Value(aWord) ==
  IF aWord = {} THEN 0
  ELSE 2^(CHOOSE i \in aWord : \A j \in aWord : j <= i)
       + Value(aWord \ {CHOOSE i \in aWord : \A j \in aWord : j <= i})

bridge2command1458(aCommand, aBridge) == aCommand + aBridge

\* cCommand1 + ((aChannel - 1) & cMaskChannel), for aChannel >= 1
channel2command18(aChannel) == cCommand1 + ((aChannel - 1) % 8)

getEnum(s, aCommand, aFunction) == BitAnd(s.mReadCache[aCommand], aFunction)

getBool(s, aCommand, aFunction) == BitAnd(s.mReadCache[aCommand], aFunction) # {}

\* bool getValue(aCommand, aFunction, aChannel)
getValueOfChannel(s, aCommand, aFunction, aChannel) ==
  0 \in Shr(BitAnd(s.mReadCache[aCommand], aFunction),
            getRightmost1position(aFunction) + aChannel - 1)

getBridgeConfig(s, aBridge) ==
  getBool(s, bridge2command1458(cCommand4, aBridge), cMask4bridge1config)

getOcBlankTime(s, aChannel) == getEnum(s, channel2command18(aChannel), cMask81tBlankOc81)

getSide(s, aChannel) == getEnum(s, channel2command18(aChannel), cMask81lsHsConfig81)

\* bool getSpiOnOut(aChannel)
getSpiOnOut(s, aChannel) ==
  \/ (getValueOfChannel(s, cCommand0, cMask0outputVcompared81, aChannel)
        /\ getSide(s, aChannel) = cHs)
  \/ (~getValueOfChannel(s, cCommand0, cMask0outputVcompared81, aChannel)
        /\ getSide(s, aChannel) = cLs)

\* void modifyValue(aCommand, aFunction, bool aInput, aChannel): the bit at
\* pos(aFunction) + aChannel - 1 (unsigned arithmetic, so channel 0 gives
\* pos - 1) is cleared if it lies in aFunction, then aInput is or-ed in there
modifyValueOfChannel(s, aCommand, aFunction, aInput, aChannel) ==
  [s EXCEPT !.mWriteCache[aCommand] =
     BitOr(BitAnd(s.mWriteCache[aCommand],
                  BitNot(BitAnd(aFunction,
                                Shl(W(0, 1), getRightmost1position(aFunction) + aChannel - 1)))),
           Shl(IF aInput THEN W(0, 1) ELSE W(0, 0),
               getRightmost1position(aFunction) + aChannel - 1))]

\* void modifyProtectionDisable(aValue, aChannel)
modifyProtectionDisable(s, aValue, aChannel) ==
  modifyValueOfChannel(s, cCommand0, cMask0protectionDisable81, aValue, aChannel)

\* uint32_t getValue(aCommand, aFunction): the field shifted down to bit 0
getValue(s, aCommand, aFunction) ==
  Shr(BitAnd(s.mReadCache[aCommand], aFunction), getRightmost1position(aFunction))

\* ChannelDiagnostics L9945::getChannelDiagnostics(aChannel), on the read cache
getChannelDiagnosticsOfDriver(s, aChannel) ==
  BitAnd(Shr(getValue(s, cCommand9,
                      BitOr(cMask9diagnosticBit2ch81,
                            BitOr(cMask9diagnosticBit1ch81, cMask9diagnosticBit0ch81))),
             aChannel),
         cMaskChannelDiagnostics)

\* bool getSpiInputSelect(aChannel)
getSpiInputSelect(s, aChannel) ==
  getValueOfChannel(s, cCommand0, cMask0spiInputSelect81, aChannel)

\* the inner branch of both setPwm: the value goes to the interface while the
\* flag is clear, 0 once it is set
ForwardPwm(s, aValue, aTarget) ==
  IF ~s.mSpiFailed
  THEN Called(s, "setPwm", [value |-> aValue, target |-> aTarget])
  ELSE Called(s, "setPwm", [value |-> 0, target |-> aTarget])

\* setPwm for a bridge forwarding the value whatever the flag says
setPwmOfBridge_Unguarded(s, aValue, aBridge) ==
  IF getBridgeConfig(s, aBridge)
  THEN Called(s, "setPwm", [value |-> aValue, target |-> <<"bridge", aBridge>>])
  ELSE s

\* void setPwm(float aValue, Bridge aBridge)
setPwmOfBridge(s, aValue, aBridge) ==
  IF getBridgeConfig(s, aBridge) THEN ForwardPwm(s, aValue, <<"bridge", aBridge>>) ELSE s

\* void setPwm(float aValue, uint32_t aChannel), for aChannel in 1..8
setPwmOfChannel(s, aValue, aChannel) ==
  IF ~getSpiInputSelect(s, aChannel)
       /\ ~getBridgeConfig(s, IF aChannel <= 4 THEN cBridge1 ELSE cBridge2)
  THEN ForwardPwm(s, aValue, <<"channel", aChannel>>)
  ELSE s

\* bool writeEnum(aCommand, aFunction, aInput)
writeEnum(s, aCommand, aFunction, aInput, e) ==
  write(s, aCommand, BitOr(BitAnd(s.mWriteCache[aCommand], BitNot(aFunction)), aInput), e)

\* writeBistHwscRequest leaving the request in the write cache
ClearBistRequest_Skip(s) == s

\* mWriteCache[cCommand10] &= ~cMask10bistHwscRequest; (not reached when the write threw)
ClearBistRequest(s) ==
  IF s.thrown THEN s
  ELSE [s EXCEPT !.mWriteCache[cCommand10] = BitAnd(@, BitNot(cMask10bistHwscRequest))]

\* bool writeBistHwscRequest(aValue)
writeBistHwscRequest(s, aValue, e) ==
  ClearBistRequest(writeEnum(s, cCommand10, cMask10bistHwscRequest, aValue, e))

\* void setWriteDelay(aWriteDelay)
setWriteDelay(s, aWriteDelay) == [s EXCEPT !.mWriteDelay = aWriteDelay]

---------------------------------------------------------------------------
(* DiagnosticsResult::perform; its local willTest lives in s.willTest *)

\* the body of the loop of gatherChannels for index i
ChannelOk(s, i, aTimeLimit, aFetNow) ==
  /\ Value(getOcBlankTime(s, i + 1)) < Value(aTimeLimit)
  /\ getSpiOnOut(s, i + 1) = aFetNow

\* the loop of gatherChannels from index i on: willTest &= (ok ? 1 : 0) << i
RECURSIVE GatherLoop(_, _, _, _, _)
GatherLoop(s, aWillTest, i, aTimeLimit, aFetNow) ==
  IF ~(i < cChannelCount) THEN aWillTest
  ELSE GatherLoop(s,
                  BitAnd(aWillTest,
                         Shl(IF ChannelOk(s, i, aTimeLimit, aFetNow) THEN W(0, 1) ELSE W(0, 0), i)),
                  i + 1, aTimeLimit, aFetNow)

\* willTest of gatherChannels before its loop
GatherStart(s) ==
  BitAnd(
    BitAnd(
      BitAnd(
        BitOr(IF getBridgeConfig(s, cBridge1) THEN W(0, 0) ELSE W(0, \h0F),
              IF getBridgeConfig(s, cBridge2) THEN W(0, 0) ELSE W(0, \hF0)),
        IF BitAnd(s.mReadCache[cCommand0], cMask0enableDiagnostics) # {}
        THEN W(0, \hFF) ELSE W(0, 0)),
      Shr(s.mReadCache[cCommand0], getRightmost1position(cMask0spiInputSelect81))),
    BitNot(Shr(s.mReadCache[cCommand0], getRightmost1position(cMask0protectionDisable81))))

\* uint32_t gatherChannels(aTimeLimit, aFetNow)
gatherChannels(s, aTimeLimit, aFetNow) ==
  BitAnd(GatherLoop(s, GatherStart(s), 0, aTimeLimit, aFetNow), W(0, \hFF))

\* mTestPerformed = aTest; uint32_t willTest = 0u;
BeginPerform(s, aTest) == [s EXCEPT !.mTestPerformed = aTest, !.willTest = W(0, 0)]

\* cAuto: willTest from the diagnostics enable and the protection disable bits
AutoChannels(s) ==
  IF s.thrown THEN s
  ELSE [s EXCEPT !.willTest =
          BitAnd(IF BitAnd(s.mReadCache[cCommand0], cMask0enableDiagnostics) # {}
                 THEN W(0, \hFF) ELSE W(0, 0),
                 BitNot(Shr(s.mReadCache[cCommand0],
                            getRightmost1position(cMask0protectionDisable81))))]

\* cOffPulse / cOnPulse: willTest = gatherChannels(limit, fetNow)
PulseChannels(s, aTimeLimit, aFetNow) ==
  IF s.thrown THEN s ELSE [s EXCEPT !.willTest = gatherChannels(s, aTimeLimit, aFetNow)]

\* mParent->mWriteCache[cCommand9] = cFixedPatternValues[cCommand9];
NeutralTrigger(s) ==
  IF s.thrown THEN s ELSE [s EXCEPT !.mWriteCache[cCommand9] = FixedPatternValue(cCommand9)]

\* if (willTest != 0u) { setWriteDelay; write(cCommand9, pattern | willTest << pos); neutral }
TriggerPulse(s, aTest, aPulseMask, e) ==
  IF s.thrown \/ s.willTest = W(0, 0) THEN s
  ELSE NeutralTrigger(
         write(setWriteDelay(s, cWaitForTest[aTest + 1]), cCommand9,
               BitOr(FixedPatternValue(cCommand9),
                     Shl(s.willTest, getRightmost1position(aPulseMask))),
               e))

\* the read pass that follows the request of cBist
ReadAfterRequest(s, es) == IF s.thrown THEN s ELSE readAllIntoCache(s, es)

\* perform with the read pass of cBist ahead of its request
PerformTest_ReadFirst(s, aTest, es, e) ==
  CASE aTest = cAuto     -> AutoChannels(readAllIntoCache(s, es))
    [] aTest = cOffPulse -> TriggerPulse(PulseChannels(readAllIntoCache(s, es), c142us, TRUE),
                                         aTest, cMask9diagOffPulse81, e)
    [] aTest = cOnPulse  -> TriggerPulse(PulseChannels(readAllIntoCache(s, es), c97us, FALSE),
                                         aTest, cMask9diagOnPulse81, e)
    [] aTest = cBist     -> writeBistHwscRequest(
                              setWriteDelay(ReadAfterRequest(s, es), cWaitForTest[aTest + 1]),
                              cYes, e)
    [] OTHER             -> readAllIntoCache(s, es)

\* the branches of perform
PerformTest(s, aTest, es, e) ==
  CASE aTest = cAuto     -> AutoChannels(readAllIntoCache(s, es))
    [] aTest = cOffPulse -> TriggerPulse(PulseChannels(readAllIntoCache(s, es), c142us, TRUE),
                                         aTest, cMask9diagOffPulse81, e)
    [] aTest = cOnPulse  -> TriggerPulse(PulseChannels(readAllIntoCache(s, es), c97us, FALSE),
                                         aTest, cMask9diagOnPulse81, e)
    [] aTest = cBist     -> ReadAfterRequest(
                              writeBistHwscRequest(setWriteDelay(s, cWaitForTest[aTest + 1]),
                                                   cYes, e),
                              es)
    [] OTHER             -> readAllIntoCache(s, es)

\* the snapshot keeping the eligibility bits of the pass before
TakeSnapshot_Accumulate(s) ==
  IF s.thrown THEN s
  ELSE [s EXCEPT !.mResultReadCache = s.mReadCache,
                 !.mChannelsDiagnosed =
                    s.mChannelsDiagnosed \cup {i \in 0..(cChannelCount - 1) : i \in s.willTest},
                 !.ret = "void"]

\* mReadCache = mParent->mReadCache; mChannelsDiagnosed[i] = (willTest & 1u << i) > 0u
TakeSnapshot(s) ==
  IF s.thrown THEN s
  ELSE [s EXCEPT !.mResultReadCache = s.mReadCache,
                 !.mChannelsDiagnosed = {i \in 0..(cChannelCount - 1) : i \in s.willTest},
                 !.ret = "void"]

\* void DiagnosticsResult::perform(aTest), as called by diagnose(aTest)
perform(s, aTest, es, e) == TakeSnapshot(PerformTest(BeginPerform(s, aTest), aTest, es, e))

\* std::optional<ChannelDiagnostics> getChannelDiagnostics(aChannel) answering
\* for every channel in range, diagnosed or not
getChannelDiagnostics_Always(aTest, aDiagnosed, aCache, aChannel) ==
  IF aChannel > 0 /\ aChannel <= cChannelCount
  THEN << BitAnd(Shr(BitAnd(aCache[cCommand9],
                            BitOr(cMask9diagnosticBit2ch81,
                                  BitOr(cMask9diagnosticBit1ch81, cMask9diagnosticBit0ch81))),
                     aChannel),
                 cMaskChannelDiagnostics) >>
  ELSE << >>

\* std::optional<ChannelDiagnostics> DiagnosticsResult::getChannelDiagnostics(aChannel):
\* << >> is the empty optional, <<v>> holds v
getChannelDiagnostics(aTest, aDiagnosed, aCache, aChannel) ==
  IF /\ aChannel > 0
     /\ aChannel <= cChannelCount
     /\ (aChannel - 1) \in aDiagnosed
     /\ aTest \in {cAuto, cOffPulse, cOnPulse}
  THEN << BitAnd(Shr(BitAnd(aCache[cCommand9],
                            BitOr(cMask9diagnosticBit2ch81,
                                  BitOr(cMask9diagnosticBit1ch81, cMask9diagnosticBit0ch81))),
                     aChannel),
                 cMaskChannelDiagnostics) >>
  ELSE << >>

\* getBistResult answering whatever test was performed
getBistResult_AnyTest(aTest, aCache) ==
  IF BitAnd(aCache[cCommand10], cMask10bistDone) # {}
  THEN << BitAnd(aCache[cCommand10], cMask10bistDisableLatch) # {} >>
  ELSE << >>

\* getBistResult looking at the result object inside the driver
getBistResult_Live(aTest, aCache) ==
  IF mTestPerformed = cBist /\ BitAnd(mResultReadCache[cCommand10], cMask10bistDone) # {}
  THEN << BitAnd(mResultReadCache[cCommand10], cMask10bistDisableLatch) # {} >>
  ELSE << >>

\* std::optional<bool> DiagnosticsResult::getBistResult()
getBistResult(aTest, aCache) ==
  IF aTest = cBist /\ BitAnd(aCache[cCommand10], cMask10bistDone) # {}
  THEN << BitAnd(aCache[cCommand10], cMask10bistDisableLatch) # {} >>
  ELSE << >>

---------------------------------------------------------------------------
(* the inputs explored *)

\* registers addressed one at a time
SingleCommands == {cCommand9}

\* registers at which a bulk operation may meet a failing transfer: the first
\* one and one in the middle
DeviationCommands == {0, cCommand9}

\* contents of the caches after construction (the arrays are not initialised)
Garbage == {W(0, 0), W(\hFFFF, \hFFFF)}

Nominal ==
  [r1 |-> cOk, r2 |-> cOk, rx1 |-> "zero", rx2 |-> "echo", img |-> W(0, 0),
   stray |-> W(0, 0), oob |-> "elided"]

\* every way one transfer can go: phase 1 fails, phase 2 fails, a word arrives
Envs ==
  {[Nominal EXCEPT !.r1 = r] : r \in SpiResult \ {cOk}}
  \cup {[Nominal EXCEPT !.r2 = r] : r \in SpiResult \ {cOk}}
  \cup {[Nominal EXCEPT !.rx2 = x] : x \in RxSelectors}

\* the ways a transfer inside a bulk operation fails: one of each kind
Deviations ==
  { [Nominal EXCEPT !.r1 = cTimeout], [Nominal EXCEPT !.r2 = cBusy],
    [Nominal EXCEPT !.rx2 = "corrupt"] }

\* the same for an index past the tables
OobEnvs ==
  {[Nominal EXCEPT !.stray = w, !.oob = o] : w \in {W(0, 0), cFixedPatternMasks[1]},
                                             o \in {"elided", "adjacent"}}

\* one environment per register for a bulk operation: every transfer nominal,
\* or one failing transfer (after it the flag is set and nothing is exchanged)
Scripts ==
  { [i \in 0..(cRegisterCount - 1) |-> Nominal] }
  \cup { [i \in 0..(cRegisterCount - 1) |-> IF i = k THEN d ELSE Nominal] :
           k \in DeviationCommands, d \in Deviations }

\* the throwaway pair of reset(): both exchanges fine, or both failing
ThrowawayEnvs == {Nominal, [Nominal EXCEPT !.r1 = cTimeout, !.r2 = cError]}

(* Register contents of the device for a diagnostics pass; every word has  *)
(* an odd number of one bits, as the device sends it.                      *)

\* no function enabled
ImageIdle == [i \in 0..(cRegisterCount - 1) |-> W(0, 1)]

\* diagnostics on, bridges independent, nothing protection-disabled, channels
\* 1..3 in hardware input mode with blanking time 11 us; channels 1 and 3
\* high-side and driven on, channel 2 low-side and driven off; register 9
\* carries a diagnostic code for channel 1
ImageConfigured ==
  [ImageIdle EXCEPT ![cCommand0] = {25, 17, 18, 19, 1, 2, 3},
                    ![1] = {2}, ![3] = {2}, ![cCommand9] = {0, 1, 17}]

\* BIST done with the disable latch set / clear
ImageBistFailed == [ImageIdle EXCEPT ![cCommand10] = {0, 13, 14}]
ImageBistPassed == [ImageIdle EXCEPT ![cCommand10] = {14}]

Images == {ImageConfigured, ImageBistFailed, ImageBistPassed}

\* the device answering every read with what the register holds
ImageScript(aImage) ==
  [i \in 0..(cRegisterCount - 1) |-> [Nominal EXCEPT !.rx2 = "image", !.img = aImage[i]]]

\* the read pass of a diagnostics pass: every register answered, or the
\* second exchange of register 0 or of register 9 failing
DiagScripts ==
  {ImageScript(g) : g \in Images}
  \cup {[ImageScript(ImageConfigured) EXCEPT ![k].r2 = cBusy] : k \in {cCommand0, cCommand9}}

\* the request write of a diagnostics pass: answered, or its second exchange fails
DiagWriteEnvs == {Nominal, [Nominal EXCEPT !.r2 = cTimeout]}

\* a diagnostics pass: the test, the answers to its reads and the answer to
\* its request write; a failing request write is explored for the BIST pass,
\* a failing read of register 9 for the Auto pass
DiagRuns ==
  {r \in [test : DiagnosticsTest, es : DiagScripts, e : DiagWriteEnvs] :
     /\ r.test = cBist \/ r.e = Nominal
     /\ r.test = cAuto \/ r.es[cCommand9].r2 = cOk}

---------------------------------------------------------------------------
(* Two threads calling read() on one driver without a lock. The members      *)
(* mDataOut and mReadCache are shared, aCommand and result are locals of     *)
(* each call; the statements of read() and spiTransfer() are the steps. The  *)
(* device answers in an exchange the command it received in the exchange      *)
(* before. Every exchange returns cOk and every word of the device has odd   *)
(* parity, so the fault branch of spiTransfer is not entered.                *)

Threads == {1, 2}

\* the registers the two threads read
RaceCommands == {cCommand9, cCommand10}

\* the command index of a frame: its bits 31..28
CommandOf(aFrame) == Value(Shr(WordOf(aFrame), 28))

\* the index carried by the phase-2 bytes of mDataOut
DummyCommand == CommandOf(cDummyBytes)

\* a thread outside read()
IdleThread ==
  [at |-> "idle", cmd |-> 0, result |-> cInvalidResponse, from |-> 0, overlapped |-> FALSE]

\* the other thread is between the first and the last statement of its call
Busy(t) == race.th[t].at \in {"prepared", "sent", "received"}

\* the device answering in every exchange the frame it is being sent
Respond_SameExchange(aPending, aFrame) == CommandOf(aFrame)

\* the register the device answers for in an exchange: the one named by the
\* frame of the exchange before
Respond(aPending, aFrame) == aPending

\* the word the device sends for command index i: the register, or a status
\* frame for an index that names none
AnswerTo(i) == IF i < cRegisterCount THEN ImageBistFailed[i] ELSE W(\hF000, \h0001)

\* thread t has taken a step: it and every thread inside a call at that
\* moment have overlapped
Stepped(t, aThread) ==
  [u \in Threads |->
     IF u = t THEN [aThread EXCEPT !.overlapped = @ \/ \E v \in Threads \ {t} : Busy(v)]
     ELSE IF Busy(u) THEN [race.th[u] EXCEPT !.overlapped = TRUE]
     ELSE race.th[u]]

RaceFrame ==
  UNCHANGED <<mWriteCache, mSpiFailed, mWriteDelay, mTestPerformed, mChannelsDiagnosed,
              mResultReadCache, csActive, allEnabled, resetActive, throws, hw, xfers,
              thrown, ret, lastOp, sinkCalls, copy, pc>>

\* read(aCommand): prepareDataToSend(cFixedPatternValues[aCommand] | cMaskRead)
RacePrepare ==
  \E t \in Threads, c \in RaceCommands :
    /\ pc = "idle" /\ ~mSpiFailed
    /\ race.th[t].at = "idle"
    /\ race' = [race EXCEPT
                  !.mDataOut = prepareDataToSend([mDataOut |-> race.mDataOut],
                                                 toRead(FixedPatternValue(c))).mDataOut,
                  !.th = Stepped(t, [IdleThread EXCEPT !.at = "prepared", !.cmd = c])]
    /\ UNCHANGED mReadCache
    /\ RaceFrame

\* spiTransfer: the exchange of mDataOut[0..3] as they are now
RaceExchange1 ==
  \E t \in Threads :
    /\ race.th[t].at = "prepared"
    /\ race' = [race EXCEPT
                  !.pending = CommandOf(SubSeq(race.mDataOut, 1, cSizeofRegister)),
                  !.th = Stepped(t, [race.th[t] EXCEPT !.at = "sent"])]
    /\ UNCHANGED mReadCache
    /\ RaceFrame

\* spiTransfer: the exchange of mDataOut[4..7]; result = the word received
RaceExchange2 ==
  \E t \in Threads :
    /\ race.th[t].at = "sent"
    /\ race' = [race EXCEPT
                  !.pending = DummyCommand,
                  !.th = Stepped(t, [race.th[t] EXCEPT
                           !.at = "received",
                           !.from = Respond(race.pending,
                                            SubSeq(race.mDataOut, cSizeofRegister + 1,
                                                   2 * cSizeofRegister)),
                           !.result = AnswerTo(Respond(race.pending,
                                                       SubSeq(race.mDataOut, cSizeofRegister + 1,
                                                              2 * cSizeofRegister)))])]
    /\ UNCHANGED mReadCache
    /\ RaceFrame

\* spiTransfer: the parity check, mReadCache[aCommand] = result; return
RaceStore ==
  \E t \in Threads :
    /\ race.th[t].at = "received"
    /\ calculateParity(race.th[t].result) # cInvalidParity
    /\ mReadCache' = [mReadCache EXCEPT ![race.th[t].cmd] = race.th[t].result]
    /\ race' = [race EXCEPT !.th = Stepped(t, [race.th[t] EXCEPT !.at = "done"])]
    /\ RaceFrame

\* the caller has the value read() returned and is free to call again
RaceReturn ==
  \E t \in Threads :
    /\ race.th[t].at = "done"
    /\ race' = [race EXCEPT !.th[t] = IdleThread]
    /\ UNCHANGED mReadCache
    /\ RaceFrame

---------------------------------------------------------------------------
(* the state machine *)

Init ==
  /\ \E g \in Garbage :
       /\ mReadCache  = [i \in 0..(cRegisterCount - 1) |-> g]
       /\ mWriteCache = [i \in 0..(cRegisterCount - 1) |-> g]
       /\ mResultReadCache = [i \in 0..(cRegisterCount - 1) |-> g]
       /\ mChannelsDiagnosed = {i \in 0..(cChannelCount - 1) : i \in g}
  /\ mTestPerformed = cNone
  /\ mSpiFailed = FALSE
  /\ mWriteDelay = cNoDelay
  /\ csActive = FALSE
  /\ allEnabled = "unknown"
  /\ resetActive = FALSE
  /\ throws \in BOOLEAN
  /\ hw = << >>
  /\ xfers = << >>
  /\ thrown = FALSE
  /\ ret = "void"
  /\ lastOp = [op |-> "none", arg |-> 0]
  /\ sinkCalls = 0
  /\ copy = << >>
  /\ race = [th |-> [t \in Threads |-> IdleThread], mDataOut |-> InitialDataOut,
             pending |-> DummyCommand]
  /\ pc = "idle"

\* the fatalError calls among the interface calls of one operation
SinkCallsIn(aHw) == Cardinality({k \in DOMAIN aHw : aHw[k].op = "fatalError"})

\* the state after a public operation that left the driver as t
Commit(t, aOp, aArg) ==
  /\ pc = "idle"
  /\ pc' = "returned"
  /\ sinkCalls' = (IF aOp = "reset" THEN 0 ELSE sinkCalls) + SinkCallsIn(t.hw)
  /\ mReadCache' = t.mReadCache
  /\ mWriteCache' = t.mWriteCache
  /\ mSpiFailed' = t.mSpiFailed
  /\ mWriteDelay' = t.mWriteDelay
  /\ mTestPerformed' = t.mTestPerformed
  /\ mChannelsDiagnosed' = t.mChannelsDiagnosed
  /\ mResultReadCache' = t.mResultReadCache
  /\ csActive' = t.csActive
  /\ allEnabled' = t.allEnabled
  /\ resetActive' = t.resetActive
  /\ hw' = t.hw
  /\ xfers' = t.xfers
  /\ thrown' = t.thrown
  /\ ret' = t.ret
  /\ lastOp' = [op |-> aOp, arg |-> aArg]
  /\ UNCHANGED <<throws, copy, race>>

Reset ==
  \E e0 \in ThrowawayEnvs, es \in Scripts : Commit(reset(Drv, e0, es), "reset", 0)

ReadIntoCache ==
  \E c \in SingleCommands, e \in Envs : Commit(readIntoCache(Drv, c, e), "readIntoCache", c)

ReadIntoCacheOutOfRange ==
  \E e \in OobEnvs :
    Commit(readIntoCache(Drv, cRegisterCount, e), "readIntoCache", cRegisterCount)

WriteFromCache ==
  \E c \in SingleCommands, e \in Envs : Commit(writeFromCache(Drv, c, e), "writeFromCache", c)

ReadAllIntoCache ==
  \E es \in Scripts : Commit(readAllIntoCache(Drv, es), "readAllIntoCache", 0)

WriteAllFromCache ==
  \E es \in Scripts : Commit(writeAllFromCache(Drv, es), "writeAllFromCache", 0)

\* the caller has looked at the outcome and goes on; the log of the call is dropped
Resume ==
  /\ pc = "returned"
  /\ pc' = "idle"
  /\ hw' = << >>
  /\ xfers' = << >>
  /\ thrown' = FALSE
  /\ ret' = "void"
  /\ lastOp' = [op |-> "none", arg |-> 0]
  /\ UNCHANGED <<mReadCache, mWriteCache, mSpiFailed, mWriteDelay,
                 mTestPerformed, mChannelsDiagnosed, mResultReadCache,
                 csActive, allEnabled, resetActive, throws, sinkCalls, copy, race>>

Diagnose ==
  \E r \in DiagRuns :
    Commit(perform(Drv, r.test, r.es, r.e), "diagnose", r.test)

WriteBistHwscRequest ==
  \E e \in DiagWriteEnvs :
    Commit(writeBistHwscRequest(Drv, cYes, e), "writeBistHwscRequest", 0)

Next ==
  \/ Resume
  \/ Reset
  \/ ReadIntoCache
  \/ ReadIntoCacheOutOfRange
  \/ WriteFromCache
  \/ ReadAllIntoCache
  \/ WriteAllFromCache

Spec == Init /\ [][Next]_vars

\* the driver used with its diagnostics: reset, the BIST request and the
\* diagnostics pass
NextDiag ==
  \/ Resume
  \/ Reset
  \/ WriteBistHwscRequest
  \/ Diagnose

SpecDiag == Init /\ [][NextDiag]_vars

\* DiagnosticsResult(DiagnosticsResult const&) = default, applied by the caller
\* to the reference diagnose(cBist) has just returned: the members are copied
CopySnapshot ==
  /\ pc = "returned"
  /\ lastOp = [op |-> "diagnose", arg |-> cBist]
  /\ ~thrown
  /\ copy' = << [mTestPerformed |-> mTestPerformed,
                 mChannelsDiagnosed |-> mChannelsDiagnosed,
                 mReadCache |-> mResultReadCache] >>
  /\ copy' # copy
  /\ UNCHANGED <<mReadCache, mWriteCache, mSpiFailed, mWriteDelay,
                 mTestPerformed, mChannelsDiagnosed, mResultReadCache,
                 csActive, allEnabled, resetActive, throws, hw, xfers, thrown, ret,
                 lastOp, sinkCalls, race, pc>>

\* the driver used with copies of its diagnostics result
NextCopy ==
  \/ Resume
  \/ Reset
  \/ Diagnose
  \/ CopySnapshot

SpecCopy == Init /\ [][NextCopy]_vars

\* channel numbers handed to a per-channel accessor: the first and the last
\* channel and their neighbours outside 1..8
ModifyChannels == {0, 1, cChannelCount, cChannelCount + 1}

ModifyProtectionDisable ==
  \E v \in BOOLEAN, c \in ModifyChannels :
    Commit(modifyProtectionDisable(Drv, v, c), "modifyProtectionDisable", c)

\* the driver configured through the write cache: reset, a per-channel
\* modification, and the write of the registers
NextModify ==
  \/ Resume
  \/ Reset
  \/ ModifyProtectionDisable
  \/ WriteAllFromCache

SpecModify == Init /\ [][NextModify]_vars

\* drive values handed to setPwm: none and some
PwmValues == {0, 50}

SetPwmOfBridge ==
  \E v \in PwmValues, b \in {cBridge1, cBridge2} :
    Commit(setPwmOfBridge(Drv, v, b), "setPwm", <<"bridge", b>>)

SetPwmOfChannel ==
  \E v \in PwmValues, c \in {1, cChannelCount} :
    Commit(setPwmOfChannel(Drv, v, c), "setPwm", <<"channel", c>>)

\* the driver driving its outputs: reset, a read that may fail, and setPwm
NextPwm ==
  \/ Resume
  \/ Reset
  \/ ReadIntoCache
  \/ SetPwmOfBridge
  \/ SetPwmOfChannel

SpecPwm == Init /\ [][NextPwm]_vars

\* two threads reading through one driver
NextRace ==
  \/ RacePrepare
  \/ RaceExchange1
  \/ RaceExchange2
  \/ RaceStore
  \/ RaceReturn

SpecRace == Init /\ [][NextRace]_vars

---------------------------------------------------------------------------
(* what the properties below talk about: the read and write calls of the
   operation that has just returned (xfers), the interface calls each of them
   made (x.hw), and the interface calls of the whole operation (hw) *)

\* the interface calls of one transfer that are aOp
CallsOf(aX, aOp) == {k \in DOMAIN aX.hw : aX.hw[k].op = aOp}

\* the transfer went wrong in this very call: an exchange failed or the word
\* received had invalid parity
ExchangeFailed(aX) == aX.exch1 \in SpiResult \ {cOk} \/ aX.exch2 \in SpiResult \ {cOk}

\* the XOR of all 32 bits of a word
XorFold(aWord) == Cardinality(aWord) % 2

\* (v & ~(readBit | fixedMask[i])) | fixedValue[i], on sets of bit positions
Adjusted(i, v) == (v \ ({27} \cup cFixedPatternMasks[i + 1])) \cup cFixedPatternValues[i + 1]

\* the transfer delivered a word that was accepted
Succeeded(aX) == ~aX.failedBefore /\ aX.received /\ aX.sink = "none"

\* C1: a read or write call made while the failure flag is set returns the
\* failure value at once and calls nothing of the interface: no chip select,
\* no exchange, no delay, no outputs control, no error sink.
C1_LatchedTransferTouchesNoHardware ==
  \A k \in DOMAIN xfers :
    xfers[k].x.failedBefore =>
      /\ xfers[k].x.hw = << >>
      /\ xfers[k].x.result = cInvalidResponse

\* C2: a read or write call made while the failure flag is set changes no
\* entry of the read cache and no entry of the write cache.
C2_CachesKeptWhileLatched ==
  \A k \in DOMAIN xfers :
    xfers[k].x.failedBefore => (xfers[k].rcChanged = {} /\ xfers[k].wcChanged = {})

\* C3: a read or write call changes the read cache only at its own register,
\* and only by storing the word of a second exchange that passed both exchange
\* checks and the parity check; a failed or refused transfer stores nothing.
C3_ReadCacheOnlyFromAcceptedWord ==
  \A k \in DOMAIN xfers :
    /\ xfers[k].rcChanged \subseteq {xfers[k].x.cmd}
    /\ xfers[k].rcChanged # {} => (Succeeded(xfers[k].x) /\ xfers[k].rcAt = xfers[k].x.rx)

\* C4: since the last reset began (or since construction) the error sink has
\* been called at most once: once if the failure flag is set, never if it is
\* clear; a transfer calls it exactly when the flag goes from clear to set in
\* that transfer, and never when the flag was set already.
C4_SinkOncePerEpoch ==
  /\ sinkCalls = (IF mSpiFailed THEN 1 ELSE 0)
  /\ \A k \in DOMAIN xfers :
       LET x == xfers[k].x
       IN  /\ Cardinality(CallsOf(x, "fatalError")) =
                (IF ~x.failedBefore /\ x.failedAfter THEN 1 ELSE 0)
           /\ x.failedBefore => (x.failedAfter /\ CallsOf(x, "fatalError") = {})

C4_Witness ==
  /\ pc = "returned"
  /\ sinkCalls = 1
  /\ \E k \in DOMAIN xfers : xfers[k].x.failedBefore /\ xfers[k].x.cmd < cRegisterCount

\* C5: when the flag is clear and one of the two exchanges of a transfer
\* returns something other than Ok, the transfer sets the flag, disables the
\* outputs, calls the sink once with CommunicationError and yields the failure
\* value (if the sink returns); the flag is still set when the operation
\* returns, and every read made with the flag set yields the failure value.
C5_ExchangeFailureHandled ==
  /\ \A k \in DOMAIN xfers :
       LET x == xfers[k].x
       IN  /\ (~x.failedBefore /\ ExchangeFailed(x)) =>
                /\ x.failedAfter
                /\ \E d \in CallsOf(x, "enableAll") : x.hw[d].arg = FALSE
                /\ \A d \in CallsOf(x, "enableAll") : x.hw[d].arg = FALSE
                /\ Cardinality(CallsOf(x, "fatalError")) = 1
                /\ \A f \in CallsOf(x, "fatalError") : x.hw[f].arg = cCommunication
                /\ x.result = cInvalidResponse
                /\ mSpiFailed
                /\ (xfers[k].kind = "write" /\ ~thrown /\ lastOp.op = "writeFromCache") => ret = FALSE
           /\ (x.failedBefore /\ xfers[k].kind = "read") => x.result = cInvalidResponse
  /\ thrown => \E k \in DOMAIN xfers : xfers[k].x.sink # "none"

C5_Witness ==
  /\ pc = "returned"
  /\ \E k \in DOMAIN xfers :
       /\ xfers[k].kind = "write"
       /\ xfers[k].x.exch1 = cOk
       /\ xfers[k].x.exch2 = cTimeout
       /\ xfers[k].x.failedAfter

\* C6: when the flag is clear, both exchanges return Ok and the received word
\* fails the parity check, the transfer sets the flag, disables the outputs,
\* calls the sink with ParityError and yields the failure value; and the sink
\* is called with ParityError only when a word was actually received, that is
\* when both exchanges took place and returned Ok.
C6_ParityErrorOnlyForReceivedWord ==
  \A k \in DOMAIN xfers :
    LET x == xfers[k].x
    IN  /\ (~x.failedBefore /\ x.received /\ calculateParity(x.rx) = cInvalidParity) =>
             /\ x.failedAfter
             /\ \E d \in CallsOf(x, "enableAll") : x.hw[d].arg = FALSE
             /\ \A f \in CallsOf(x, "fatalError") : x.hw[f].arg = cParity
             /\ Cardinality(CallsOf(x, "fatalError")) = 1
             /\ x.result = cInvalidResponse
        /\ (\E f \in CallsOf(x, "fatalError") : x.hw[f].arg = cParity) =>
             (x.exch1 = cOk /\ x.exch2 = cOk /\ x.received)

C9_NoInterfaceCallBeforeFlagCleared ==
  lastOp.op = "reset" =>
    \A k \in DOMAIN hw :
      hw[k].failed => \E j \in 1..(k - 1) : ~hw[j].failed

\* C9 amended: reset() clears the failure flag before its write-back transfers
\* but after the reset pulse and the throwaway exchange pair: the first ten
\* interface calls (reset line on, delay, reset line off, delay, and the two
\* chip-select framed exchanges) are made with the flag as reset() found it,
\* the eleventh call, which opens the first write-back, is made with the flag
\* clear, so every later call made with the flag set follows a failure within
\* this same reset().
C9_FlagClearedBeforeWriteBack ==
  lastOp.op = "reset" =>
    /\ Len(hw) > 10
    /\ <<hw[1].op, hw[2].op, hw[3].op, hw[4].op>> =
         <<"enableReset", "delayMs", "enableReset", "delayMs">>
    /\ {k \in 1..10 : hw[k].op = "spiTransmitReceive"} = {6, 9}
    /\ \A k \in 1..10 : hw[k].failed = hw[1].failed
    /\ ~hw[11].failed
    /\ hw[11].op = "enableSpiTransfer"
    /\ xfers # << >>
    /\ ~xfers[1].x.failedBefore
    /\ xfers[1].x.exch1 # "none"

C9_Witness ==
  /\ pc = "returned"
  /\ lastOp.op = "reset"
  /\ hw[1].failed
  /\ ~mSpiFailed

\* C10: when reset() returns, the outputs are enabled if and only if all 14
\* write-backs succeeded, which is if and only if the failure flag is clear;
\* if one of them failed, the last outputs control call of reset() was a
\* disable and the flag is set.
C10_OutputsEnabledIffAllWritten ==
  (lastOp.op = "reset" /\ ~thrown) =>
    LET allWritten == /\ Len(xfers) = cRegisterCount
                      /\ \A k \in DOMAIN xfers :
                           /\ xfers[k].kind = "write"
                           /\ xfers[k].x.cmd = k - 1
                           /\ Succeeded(xfers[k].x)
        controls   == {k \in DOMAIN hw : hw[k].op = "enableAll"}
    IN  /\ (allEnabled = "enabled") <=> allWritten
        /\ allWritten <=> ~mSpiFailed
        /\ controls # {}
        /\ \A k \in controls : (\A j \in controls : j <= k) => hw[k].arg = allWritten
        /\ ~allWritten => allEnabled = "disabled"

C10_Witness ==
  /\ pc = "returned"
  /\ lastOp.op = "reset"
  /\ ~thrown
  /\ mSpiFailed
  /\ allEnabled = "disabled"
  /\ Len(xfers) > 1

---------------------------------------------------------------------------
(* the diagnostics pass *)

\* a pulse pass returned to its caller after a read pass that answered every
\* register, and the flag is clear
PulsePassDone ==
  /\ pc = "returned"
  /\ lastOp.op = "diagnose"
  /\ lastOp.arg \in {cOffPulse, cOnPulse}
  /\ ~thrown
  /\ ~mSpiFailed
  /\ Len(xfers) >= cRegisterCount
  /\ \A k \in 1..cRegisterCount : xfers[k].kind = "read" /\ Succeeded(xfers[k].x)

\* the blanking time field of channel c (bits 11..9 of register c) as a number
BlankTimeOf(aCache, c) == Cardinality({9} \cap aCache[c]) + 2 * Cardinality({10} \cap aCache[c])
                          + 4 * Cardinality({11} \cap aCache[c])

\* the observed driven state of channel c: the compared output bit of
\* register 0 for a high-side channel, its inverse for a low-side channel
DrivenOn(aCache, c) == (c \in aCache[0]) <=> (2 \in aCache[c])

\* the criteria for channel c in a pulse pass, on the registers of the snapshot
Eligible(aCache, c, aTest) ==
  /\ 26 \notin aCache[IF c <= 4 THEN 4 ELSE 8]
  /\ 25 \in aCache[0]
  /\ (16 + c) \in aCache[0]
  /\ (8 + c) \notin aCache[0]
  /\ BlankTimeOf(aCache, c) < (IF aTest = cOffPulse THEN 7 ELSE 6)
  /\ DrivenOn(aCache, c) <=> (aTest = cOffPulse)

EligibleChannels(aCache, aTest) == {c \in 1..cChannelCount : Eligible(aCache, c, aTest)}

\* C11: after the read pass of perform(OffPulse) or perform(OnPulse), channel
\* c (1..8) has its eligibility bit set if and only if, in the registers just
\* read, its bridge is not combined, diagnostics are enabled, its input is in
\* hardware mode, its protection is not disabled, its blanking time is below
\* the ceiling (142 us / 97 us) and it is driven on (OffPulse) / off (OnPulse).
C11_EligibilityBitIffAllCriteria ==
  PulsePassDone =>
    \A c \in 1..cChannelCount :
      ((c - 1) \in mChannelsDiagnosed) <=> Eligible(mResultReadCache, c, lastOp.arg)

\* C12: when at least one channel meets the criteria, the pulse pass issues
\* exactly one write, to register 9, whose pulse bits (off-pulse bits 16..9,
\* on-pulse bits 8..1) are set for exactly the eligible channels; when none
\* does, it issues no write.
C12_OneTriggerWriteForEligibleChannels ==
  PulsePassDone =>
    IF EligibleChannels(mResultReadCache, lastOp.arg) # {}
    THEN /\ Len(xfers) = cRegisterCount + 1
         /\ xfers[cRegisterCount + 1].kind = "write"
         /\ xfers[cRegisterCount + 1].x.cmd = cCommand9
         /\ xfers[cRegisterCount + 1].req
                \cap (IF lastOp.arg = cOffPulse THEN 9..16 ELSE 1..8)
              = {(IF lastOp.arg = cOffPulse THEN 8 ELSE 0) + c :
                   c \in EligibleChannels(mResultReadCache, lastOp.arg)}
    ELSE Len(xfers) = cRegisterCount

\* C13: the per-channel diagnostics query on the snapshot returns the empty
\* optional for every channel whose eligibility bit is 0 (so for each such
\* channel after a pulse pass), for every channel after perform(None) and
\* perform(Bist), and for every channel number outside 1..8; the mode the
\* snapshot carries is the mode of the last pass.
C13_NotApplicableWhenNotDiagnosed ==
  /\ (pc = "returned" /\ lastOp.op = "diagnose") => mTestPerformed = lastOp.arg
  /\ \A c \in 0..(cChannelCount + 1) :
       (\/ c \notin 1..cChannelCount
        \/ mTestPerformed \in {cNone, cBist}
        \/ (c - 1) \notin mChannelsDiagnosed)
       => getChannelDiagnostics(mTestPerformed, mChannelsDiagnosed, mResultReadCache, c) = << >>

\* a pulse pass whose snapshot of register 9 holds a diagnostic code for
\* channel 1, whose eligibility bit is 0
C13_Witness ==
  /\ PulsePassDone
  /\ mTestPerformed \in {cOffPulse, cOnPulse}
  /\ 0 \notin mChannelsDiagnosed
  /\ {1, 17} \subseteq mResultReadCache[cCommand9]
  /\ getChannelDiagnostics(mTestPerformed, mChannelsDiagnosed, mResultReadCache, 1) = << >>

\* C14: on the snapshot a pass returned, the BIST result is the empty
\* optional unless the pass was perform(Bist) and the BIST-done bit (bit 14)
\* is set in the snapshot's copy of register 10; when both hold it is the
\* disable-latch bit (bit 13) of that copy. A perform(None) or perform(Auto)
\* that reads the done bit as set yields the empty optional.
C14_BistResultOnlyAfterBistDone ==
  (pc = "returned" /\ lastOp.op = "diagnose" /\ ~thrown) =>
    /\ getBistResult(mTestPerformed, mResultReadCache) # << >>
         => (lastOp.arg = cBist /\ 14 \in mResultReadCache[cCommand10])
    /\ (lastOp.arg = cBist /\ 14 \in mResultReadCache[cCommand10])
         => getBistResult(mTestPerformed, mResultReadCache)
              = << 13 \in mResultReadCache[cCommand10] >>

\* perform(Bist) whose request write and read pass succeeded, the device
\* reporting BIST done with the disable latch set
C14_Witness ==
  /\ pc = "returned"
  /\ lastOp = [op |-> "diagnose", arg |-> cBist]
  /\ ~thrown
  /\ Len(xfers) = cRegisterCount + 1
  /\ \A k \in DOMAIN xfers : Succeeded(xfers[k].x)
  /\ {13, 14} \subseteq mResultReadCache[cCommand10]
  /\ getBistResult(mTestPerformed, mResultReadCache) = << TRUE >>

\* the last operation was one that sends the BIST request
BistRequested ==
  /\ pc = "returned"
  /\ \/ lastOp = [op |-> "diagnose", arg |-> cBist]
     \/ lastOp.op = "writeBistHwscRequest"

C17_WriteDelayOneShot ==
  /\ mWriteDelay = cNoDelay
  /\ \A k \in DOMAIN xfers :
       /\ xfers[k].x.delay =
            (IF lastOp = [op |-> "diagnose", arg |-> cBist] /\ k = 1 THEN 3 ELSE cNoDelay)
       /\ xfers[k].kind = "read" => xfers[k].x.delay = cNoDelay
       /\ \A j \in DOMAIN xfers[k].x.hw :
            xfers[k].x.hw[j].op = "delayMs" => xfers[k].x.hw[j].arg = xfers[k].x.delay

\* perform(Bist): the request write waited 3 ms, the 14 reads after it 0 ms
C17_Witness ==
  /\ pc = "returned"
  /\ lastOp = [op |-> "diagnose", arg |-> cBist]
  /\ Len(xfers) = cRegisterCount + 1
  /\ xfers[1].kind = "write"
  /\ xfers[1].x.cmd = cCommand10
  /\ \E j \in DOMAIN xfers[1].x.hw :
       xfers[1].x.hw[j].op = "delayMs" /\ xfers[1].x.hw[j].arg = 3
  /\ \E j \in DOMAIN xfers[2].x.hw :
       xfers[2].x.hw[j].op = "delayMs" /\ xfers[2].x.hw[j].arg = 0
  /\ mWriteDelay = cNoDelay

---------------------------------------------------------------------------
(* the phase-1 word *)

\* the transfers of the last operation whose phase-1 word went on the wire
OnWire == {k \in DOMAIN xfers : xfers[k].x.exch1 # "none"}

\* the command word of transfer k before the parity adjustment: the fixed
\* pattern with the read bit for a read, the adjusted value for a write
Unadjusted(k) ==
  IF xfers[k].kind = "read"
  THEN cFixedPatternValues[xfers[k].x.cmd + 1] \cup {27}
  ELSE Adjusted(xfers[k].x.cmd, xfers[k].req)

\* C18 as stated: every phase-1 word on the wire has even parity (the XOR of
\* its 32 bits is zero) and differs from the unadjusted command word at most
\* in bit 0.
C18_PhaseOneWordEvenParity ==
  \A k \in OnWire :
    /\ XorFold(xfers[k].x.tx) = 0
    /\ xfers[k].x.tx \ {0} = Unadjusted(k) \ {0}

\* C18: every phase-1 word on the wire has odd parity (the XOR of its 32 bits
\* is one) and differs from the unadjusted command word at most in bit 0,
\* which is flipped exactly when the unadjusted word has even parity.
C18_PhaseOneWordOddParity ==
  \A k \in OnWire :
    /\ XorFold(xfers[k].x.tx) = 1
    /\ xfers[k].x.tx \ {0} = Unadjusted(k) \ {0}
    /\ (xfers[k].x.tx = Unadjusted(k)) <=> (XorFold(Unadjusted(k)) = 1)

\* a write whose unadjusted word has even parity and a write whose unadjusted
\* word has odd parity went on the wire in the same operation
C18_Witness ==
  /\ pc = "returned"
  /\ \E k \in OnWire :
       /\ xfers[k].kind = "write"
       /\ XorFold(Unadjusted(k)) = 0
       /\ xfers[k].x.tx # Unadjusted(k)
  /\ \E k \in OnWire :
       /\ xfers[k].kind = "write"
       /\ XorFold(Unadjusted(k)) = 1
       /\ xfers[k].x.tx = Unadjusted(k)

\* C19 as stated: bit 27 of the phase-1 word is 1 for a read transfer and 0
\* for a write transfer, for every register 0..13.
C19_DirectionBitOnlyForReads ==
  \A k \in OnWire : (27 \in xfers[k].x.tx) <=> (xfers[k].kind = "read")

\* C19: bit 27 of the phase-1 word is 1 for every read transfer; for a write
\* transfer it is 0 for registers 0..10 whatever the value asked for, and 1
\* for registers 11..13, whose fixed pattern covers bit 27 and has it set.
C19_DirectionBitByRegister ==
  \A k \in OnWire :
    (27 \in xfers[k].x.tx) <=> (xfers[k].kind = "read" \/ xfers[k].x.cmd \in 11..13)

\* writeAllFromCache of a cache whose words have bit 27 set: the write of
\* register 0 went out without it, the write of register 11 with it
C19_Witness ==
  /\ pc = "returned"
  /\ lastOp.op = "writeAllFromCache"
  /\ {1, 12} \subseteq OnWire
  /\ xfers[1].kind = "write" /\ xfers[1].x.cmd = cCommand0
  /\ 27 \in xfers[1].req /\ 27 \notin xfers[1].x.tx
  /\ xfers[12].kind = "write" /\ xfers[12].x.cmd = 11
  /\ 27 \in xfers[12].x.tx

\* the bits 31..28 that spell the register index i
IndexBits(i) == {28 + b : b \in {b \in 0..3 : (i \div (2^b)) % 2 = 1}}

\* C20: for every transfer of register i in 0..13, bits 31..28 of the phase-1
\* word spell i and every bit selected by fixedMask[i] equals that bit of
\* fixedValue[i], whatever value was asked for; the word agrees on all these
\* bits with the command word before the parity adjustment.
C20_IndexAndFixedPatternForced ==
  \A k \in OnWire :
    /\ xfers[k].x.tx \cap (28..31) = IndexBits(xfers[k].x.cmd)
    /\ xfers[k].x.tx \cap cFixedPatternMasks[xfers[k].x.cmd + 1]
         = cFixedPatternValues[xfers[k].x.cmd + 1] \cap cFixedPatternMasks[xfers[k].x.cmd + 1]
    /\ xfers[k].x.tx \cap ((28..31) \cup cFixedPatternMasks[xfers[k].x.cmd + 1])
         = Unadjusted(k) \cap ((28..31) \cup cFixedPatternMasks[xfers[k].x.cmd + 1])

\* a write of register 9 on the wire whose requested value disagrees with the
\* fixed pattern on masked bits and whose bit 0 was flipped for parity
C20_Witness ==
  /\ pc = "returned"
  /\ \E k \in OnWire :
       /\ xfers[k].kind = "write"
       /\ xfers[k].x.cmd = cCommand9
       /\ xfers[k].req \cap cFixedPatternMasks[cCommand9 + 1]
            # cFixedPatternValues[cCommand9 + 1] \cap cFixedPatternMasks[cCommand9 + 1]
       /\ xfers[k].x.tx # Unadjusted(k)

---------------------------------------------------------------------------
(* the transfers of a diagnostics pass *)

\* the transfers k..n of the last operation are reads of registers 0, 1, ...
ReadsInOrder(k, n) ==
  \A j \in k..n : xfers[j].kind = "read" /\ xfers[j].x.cmd = j - k

\* C22: perform(None) and perform(Auto) that return have made exactly one read
\* transfer for each register 0..13, in this order, and no write transfer,
\* also when a read failed on the way; a pass ended by a throwing fatalError
\* has made the reads up to the failing one. Neither changes the write cache.
C22_NoneAutoReadEveryRegisterOnce ==
  /\ [](( /\ pc = "returned"
          /\ lastOp.op = "diagnose"
          /\ lastOp.arg \in {cNone, cAuto})
        => /\ ReadsInOrder(1, Len(xfers))
           /\ Len(xfers) <= cRegisterCount
           /\ ~thrown => Len(xfers) = cRegisterCount)
  /\ [][(pc' = "returned" /\ lastOp'.op = "diagnose" /\ lastOp'.arg \in {cNone, cAuto})
          => mWriteCache' = mWriteCache]_vars

\* perform(None) whose first read failed and whose other 13 reads followed
C22_Witness ==
  /\ pc = "returned"
  /\ lastOp = [op |-> "diagnose", arg |-> cNone]
  /\ ~thrown
  /\ Len(xfers) = cRegisterCount
  /\ ~xfers[1].x.failedBefore
  /\ xfers[1].x.sink # "none"
  /\ xfers[cRegisterCount].x.failedBefore

---------------------------------------------------------------------------
(* the exchanges of one transfer *)

\* the positions of the exchanges among the interface calls of a transfer
ExchangesOf(aHw) == {j \in DOMAIN aHw : aHw[j].op = "spiTransmitReceive"}

\* the transfer made the phase-1 exchange of its command word, then the delay
\* it was given, then the phase-2 exchange of the dummy word, and no other
TwoExchanges(aX) ==
  /\ Cardinality(ExchangesOf(aX.hw)) = 2
  /\ \E i, d, j \in DOMAIN aX.hw :
       /\ i < d /\ d < j
       /\ aX.hw[i].op = "spiTransmitReceive" /\ aX.hw[i].arg.tx = BytesOf(aX.tx)
       /\ aX.hw[d].op = "delayMs" /\ aX.hw[d].arg = aX.delay
       /\ aX.hw[j].op = "spiTransmitReceive" /\ aX.hw[j].arg.tx = cDummyBytes

\* the transfer made the phase-1 exchange only, and the delay after it
OneExchange(aX) ==
  /\ Cardinality(ExchangesOf(aX.hw)) = 1
  /\ \E i, d \in DOMAIN aX.hw :
       /\ i < d
       /\ aX.hw[i].op = "spiTransmitReceive" /\ aX.hw[i].arg.tx = BytesOf(aX.tx)
       /\ aX.hw[d].op = "delayMs" /\ aX.hw[d].arg = aX.delay

\* C28 as stated: every transfer begun with the failure flag clear makes
\* exactly two exchanges, the command word, the delay, the dummy word, also
\* when the first exchange does not end Ok.
C28_AlwaysTwoExchanges ==
  \A k \in DOMAIN xfers :
    (~xfers[k].x.failedBefore /\ xfers[k].x.cmd < cRegisterCount) => TwoExchanges(xfers[k].x)

\* C28: a transfer of a register 0..13 begun with the failure flag clear makes
\* the phase-1 exchange of its command word and then the delay; it makes the
\* phase-2 exchange of the dummy word after the delay exactly when the phase-1
\* exchange ended Ok. When phase 1 did not end Ok there is one exchange only.
C28_SecondExchangeOnlyAfterOkFirst ==
  \A k \in DOMAIN xfers :
    (~xfers[k].x.failedBefore /\ xfers[k].x.cmd < cRegisterCount) =>
      IF xfers[k].x.exch1 = cOk
      THEN TwoExchanges(xfers[k].x)
      ELSE OneExchange(xfers[k].x) /\ xfers[k].x.exch2 = "none"

\* a transfer whose phase-1 exchange timed out: one exchange, then the delay
C28_Witness ==
  /\ pc = "returned"
  /\ xfers # << >>
  /\ ~xfers[1].x.failedBefore
  /\ xfers[1].x.exch1 = cTimeout
  /\ OneExchange(xfers[1].x)

---------------------------------------------------------------------------
(* the error sink *)

\* C30: whenever fatalError is called, the failure flag is already set and
\* the last outputs control call before it, in the same operation, was
\* enableAll(false); so when fatalError throws, the operation ends with the
\* flag set and the outputs disabled.
C30_LatchedAndDisabledBeforeSink ==
  /\ \A k \in DOMAIN hw :
       hw[k].op = "fatalError" =>
         /\ hw[k].failed
         /\ \E j \in 1..(k - 1) :
              /\ hw[j].op = "enableAll"
              /\ hw[j].arg = FALSE
              /\ \A i \in (j + 1)..(k - 1) : hw[i].op # "enableAll"
  /\ thrown => (mSpiFailed /\ allEnabled = "disabled"
                  /\ hw # << >> /\ hw[Len(hw)].op = "fatalError")

\* an operation whose transfer failed and whose fatalError threw: its last
\* two interface calls are enableAll(false), made with the flag set, and fatalError
C30_Witness ==
  /\ pc = "returned"
  /\ thrown
  /\ hw[Len(hw)].op = "fatalError"
  /\ hw[Len(hw) - 1] = [op |-> "enableAll", arg |-> FALSE, failed |-> TRUE, cs |-> FALSE]
  /\ mSpiFailed
  /\ allEnabled = "disabled"

---------------------------------------------------------------------------
(* the write cache across the cache operations *)

\* the registers the operation that has just returned tried to write or read
Transferred == {xfers[k].x.cmd : k \in DOMAIN xfers}

\* the operation that returns in this step is one of the write-from-cache calls
WriteFromCacheReturns ==
  pc = "idle" /\ pc' = "returned" /\ lastOp'.op \in {"writeFromCache", "writeAllFromCache"}

ReadIntoCacheReturns ==
  pc = "idle" /\ pc' = "returned" /\ lastOp'.op \in {"readIntoCache", "readAllIntoCache"}

\* C26: readAllIntoCache() and readIntoCache(i) leave every entry of the write
\* cache as it was before the call (getReadCache(i) is a const member returning
\* mReadCache[aCommand]: it has no step of its own, changes nothing and calls
\* nothing of the interface).
C26_ReadsRetainWriteCache ==
  [][ReadIntoCacheReturns => mWriteCache' = mWriteCache]_vars

---------------------------------------------------------------------------
(* the eligibility bitmap as a function of the registers read *)

\* a pulse pass has returned without an exception: its snapshot was taken
PulsePassReturned ==
  /\ pc = "returned"
  /\ lastOp.op = "diagnose"
  /\ lastOp.arg \in {cOffPulse, cOnPulse}
  /\ ~thrown

\* gatherChannels evaluated on the registers of the snapshot alone
BitmapOf(aCache, aTest) ==
  {i \in 0..(cChannelCount - 1) :
     i \in gatherChannels([mReadCache |-> aCache],
                          IF aTest = cOffPulse THEN c142us ELSE c97us,
                          aTest = cOffPulse)}

---------------------------------------------------------------------------
(* the queries on a copy of the diagnostics result *)

\* what the queries answer on the result object aResult
Answers(aResult) ==
  [ bist    |-> getBistResult(aResult.mTestPerformed, aResult.mReadCache),
    channel |-> [c \in 1..cChannelCount |->
                   getChannelDiagnostics(aResult.mTestPerformed, aResult.mChannelsDiagnosed,
                                         aResult.mReadCache, c)] ]

---------------------------------------------------------------------------
(* the per-channel modify accessors *)

\* a per-channel modify accessor returns in this step
ModifyReturns == pc = "idle" /\ pc' = "returned" /\ lastOp'.op = "modifyProtectionDisable"

\* C24: a per-channel modify accessor called with a channel number outside
\* 1..8 changes no bit of the write cache that belongs to another field or to
\* the setting or register of a valid channel (every bit of register 0 is
\* one of these), and leaves the failure flag as it was.
C24_OutOfRangeChannelChangesNothing ==
  [][(ModifyReturns /\ lastOp'.arg \notin 1..cChannelCount) =>
       /\ mWriteCache' = mWriteCache
       /\ mSpiFailed' = mSpiFailed]_vars

---------------------------------------------------------------------------
(* two threads in read() at once *)

\* the call of thread t has stored a word that answers another index than its own
Misfiled(t) ==
  /\ race.th[t].at = "done"
  /\ race.th[t].from # race.th[t].cmd

\* C29: a read stores under its register index a response that answers another
\* index only when the call overlapped a call of the other thread, through an
\* exchange of the other call between its two phases or through the shared
\* transmit buffer rewritten before it was sent; a call that overlapped none
\* stores the answer to its own register. The state with such a store is
\* reachable (C29_Witness).
C29_MisfiledOnlyWhenCallsOverlap ==
  \A t \in Threads :
    /\ Misfiled(t) => race.th[t].overlapped
    /\ (race.th[t].at = "done" /\ ~race.th[t].overlapped) =>
         mReadCache[race.th[t].cmd] = AnswerTo(race.th[t].cmd)

\* a call has returned and the read cache holds, under the register it was
\* asked to read, the contents of the register the other thread asked for
C29_Witness ==
  \E t \in Threads :
    /\ Misfiled(t)
    /\ race.th[t].from \in RaceCommands
    /\ mReadCache[race.th[t].cmd] = AnswerTo(race.th[t].from)
    /\ AnswerTo(race.th[t].from) # AnswerTo(race.th[t].cmd)

---------------------------------------------------------------------------
(* chip select around the exchanges *)

\* C31: every spiTransmitReceive of an operation is made with chip select
\* asserted, every delayMs (the settling delay between the two phases, and the
\* delays of reset) with chip select released, and chip select is released
\* when the operation has returned or was left by an exception.
C31_ChipSelectFramesEveryExchange ==
  /\ \A k \in DOMAIN hw :
       /\ hw[k].op = "spiTransmitReceive" => hw[k].cs
       /\ hw[k].op = "delayMs" => ~hw[k].cs
  /\ pc = "returned" => ~csActive

\* an operation was left by the exception of fatalError after an exchange
\* that did not return cOk
C31_Witness ==
  /\ pc = "returned"
  /\ thrown
  /\ ~csActive
  /\ \E k \in DOMAIN hw :
       /\ hw[k].op = "spiTransmitReceive"
       /\ hw[k].arg.res # cOk
       /\ hw[k].cs

---------------------------------------------------------------------------
(* register indices past the last register *)

\* C32: a read or write requested with a register index outside 0..13 makes
\* no exchange, leaves the failure flag as it was, does not call the error
\* sink and changes no entry of the read cache or the write cache.
C32_OutOfRangeIndexFailSilent ==
  \A k \in DOMAIN xfers :
    ~(xfers[k].x.cmd < cRegisterCount) =>
      /\ CallsOf(xfers[k].x, "spiTransmitReceive") = {}
      /\ xfers[k].x.failedAfter = xfers[k].x.failedBefore
      /\ xfers[k].x.sink = "none"
      /\ xfers[k].rcChanged = {}
      /\ xfers[k].wcChanged = {}

---------------------------------------------------------------------------
(* what the bulk operations do and return *)

\* writeAllFromCache() has returned or was left by an exception
WriteAllDone == pc = "returned" /\ lastOp.op = "writeAllFromCache"

\* C33: writeAllFromCache() writes register k - 1 in its k-th transfer, makes
\* no transfer after the first write that did not succeed, and returns true
\* exactly when all 14 writes succeeded.
C33_WriteAllInOrderUntilFirstFailure ==
  WriteAllDone =>
    /\ Len(xfers) \in 1..cRegisterCount
    /\ \A k \in DOMAIN xfers : xfers[k].kind = "write" /\ xfers[k].x.cmd = k - 1
    /\ \A k \in 1..(Len(xfers) - 1) : Succeeded(xfers[k].x)
    /\ Len(xfers) < cRegisterCount => ~Succeeded(xfers[Len(xfers)].x)
    /\ ~thrown =>
         (ret <=> (Len(xfers) = cRegisterCount /\ \A k \in DOMAIN xfers : Succeeded(xfers[k].x)))

\* writeAllFromCache() returned false after some writes that succeeded and one
\* that failed, short of the last register
C33_Witness ==
  /\ WriteAllDone
  /\ ~thrown
  /\ ret = FALSE
  /\ Len(xfers) > 1
  /\ Len(xfers) < cRegisterCount
  /\ Succeeded(xfers[1].x)
  /\ xfers[Len(xfers)].x.sink # "none"

\* readAllIntoCache() or readIntoCache(i) has returned a value
ReadReturned ==
  /\ pc = "returned"
  /\ lastOp.op \in {"readIntoCache", "readAllIntoCache"}
  /\ ~thrown

\* C34: readAllIntoCache() and readIntoCache(i) return true exactly when
\* every read they attempted succeeded, as writeAllFromCache() and write() do.
C34_ReadsReturnTrueOnSuccess ==
  ReadReturned => (ret <=> \A k \in DOMAIN xfers : Succeeded(xfers[k].x))

---------------------------------------------------------------------------
(* the parity sent and the parity accepted *)

\* the word prepareDataToSend(aValue) leaves in mDataOut[0..3]
Sent(aValue) ==
  WordOf(SubSeq(prepareDataToSend([mDataOut |-> InitialDataOut], aValue).mDataOut,
                1, cSizeofRegister))

\* bits toggled in the cached words to vary the values handed to prepareDataToSend
ParityProbeBits == {0, 27, 31}

\* values to send: the cached words of three registers with every subset of
\* the probe bits toggled
ParitySamples ==
  {BitXor(c[i], b) : c \in {mReadCache, mWriteCache}, i \in {cCommand0, cCommand9, cCommand13},
                     b \in SUBSET ParityProbeBits}

\* C35: the word prepareDataToSend builds from any value passes the parity
\* test spiTransfer applies to a response, and a transfer whose response is
\* the command word it sent does not report a parity error.
C35_SentWordPassesResponseParityCheck ==
  /\ \A v \in ParitySamples : calculateParity(Sent(v)) # cInvalidParity
  /\ \A k \in DOMAIN xfers :
       (xfers[k].x.received /\ xfers[k].x.rx = xfers[k].x.tx) =>
         /\ calculateParity(xfers[k].x.tx) # cInvalidParity
         /\ xfers[k].x.sink # cParity

\* a transfer made with the flag clear received the very word it had sent and
\* accepted it; among the sample values are words of even and of odd bit count
C35_Witness ==
  /\ pc = "returned"
  /\ \E k \in DOMAIN xfers :
       /\ ~xfers[k].x.failedBefore
       /\ xfers[k].x.received
       /\ xfers[k].x.rx = xfers[k].x.tx
       /\ xfers[k].x.tx # cInvalidResponse
       /\ Succeeded(xfers[k].x)
  /\ \E v, w \in ParitySamples :
       calculateParity(v) = cInvalidParity /\ calculateParity(w) # cInvalidParity

\* C36: a transfer returns a word other than 0 exactly when it succeeded: a
\* response of all zeros is rejected as a parity error, so write() returns
\* true exactly when its transfer succeeded and a result of 0 means the
\* transfer failed or was refused.
C36_ZeroResultIffTransferDidNotSucceed ==
  /\ \A k \in DOMAIN xfers :
       /\ Succeeded(xfers[k].x) <=> xfers[k].x.result # cInvalidResponse
       /\ (~xfers[k].x.failedBefore /\ xfers[k].x.received
             /\ xfers[k].x.rx = cInvalidResponse) => xfers[k].x.sink = cParity
  /\ (pc = "returned" /\ lastOp.op = "writeFromCache" /\ ~thrown) =>
       (ret <=> Succeeded(xfers[1].x))

\* a write made with the flag clear received the all-zero word in an exchange
\* that returned cOk, and returned false
C36_Witness ==
  /\ pc = "returned"
  /\ lastOp.op = "writeFromCache"
  /\ ~thrown
  /\ ret = FALSE
  /\ ~xfers[1].x.failedBefore
  /\ xfers[1].x.received
  /\ xfers[1].x.rx = cInvalidResponse

---------------------------------------------------------------------------
(* the throwaway exchanges of reset *)

\* reset() has returned or was left by an exception
ResetDone == pc = "returned" /\ lastOp.op = "reset"

\* the exchanges among the interface calls before call k of the operation
ExchangesBefore(k) == {j \in 1..(k - 1) : hw[j].op = "spiTransmitReceive"}

\* C37: in reset() the outcome of the two throwaway exchanges has no effect:
\* no call of the error sink and no outputs control precedes the first
\* exchange of the write-back, and after reset() the failure flag is set only
\* if a transfer of the write-back failed; else the outputs are enabled.
C37_ThrowawayOutcomeIgnored ==
  ResetDone =>
    /\ \A k \in DOMAIN hw :
         hw[k].op \in {"fatalError", "enableAll"} => Cardinality(ExchangesBefore(k)) >= 3
    /\ mSpiFailed => \E k \in DOMAIN xfers : xfers[k].kind = "write" /\ xfers[k].x.sink # "none"
    /\ (~mSpiFailed /\ ~thrown) => allEnabled = "enabled"

\* reset() has returned with the flag clear and the outputs enabled although
\* both throwaway exchanges returned an error
C37_Witness ==
  /\ ResetDone
  /\ ~thrown
  /\ ~mSpiFailed
  /\ allEnabled = "enabled"
  /\ \E j, k \in DOMAIN hw :
       /\ j < k
       /\ ExchangesBefore(j) = {}
       /\ hw[j].op = "spiTransmitReceive" /\ hw[j].arg.res # cOk
       /\ hw[k].op = "spiTransmitReceive" /\ hw[k].arg.res # cOk
       /\ ExchangesBefore(k) = {j}

---------------------------------------------------------------------------
(* setPwm and the failure flag *)

\* the calls of the interface's setPwm in the operation that has just returned
PwmCalls == {k \in DOMAIN hw : hw[k].op = "setPwm"}

\* C38: while the failure flag is set, setPwm for a bridge or for a channel
\* hands the interface the value 0 or does not call it at all; with the flag
\* clear it hands on the value it was given.
C38_NoDriveValueWhileLatched ==
  (pc = "returned" /\ lastOp.op = "setPwm") =>
    /\ Cardinality(PwmCalls) <= 1
    /\ \A k \in PwmCalls :
         /\ hw[k].arg.target = lastOp.arg
         /\ mSpiFailed => hw[k].arg.value = 0
         /\ ~mSpiFailed => hw[k].arg.value \in PwmValues

\* setPwm was called with the flag set and called the interface
C38_Witness ==
  /\ pc = "returned"
  /\ lastOp.op = "setPwm"
  /\ mSpiFailed
  /\ lastOp.arg[1] = "bridge"
  /\ PwmCalls # {}

---------------------------------------------------------------------------
(* the two decoders of register 9 *)

\* a diagnostics pass has returned and taken its snapshot
PassReturned == pc = "returned" /\ lastOp.op = "diagnose" /\ ~thrown

\* C40: for the word of register 9 a snapshot holds and every channel 1..8 for
\* which the snapshot answers, L9945::getChannelDiagnostics on a read cache
\* holding the same word gives the code DiagnosticsResult::getChannelDiagnostics
\* gives.
C40_DriverAndSnapshotDecodeAlike ==
  PassReturned =>
    \A c \in 1..cChannelCount :
      getChannelDiagnostics(mTestPerformed, mChannelsDiagnosed, mResultReadCache, c) # << >> =>
        getChannelDiagnostics(mTestPerformed, mChannelsDiagnosed, mResultReadCache, c)[1]
          = getChannelDiagnosticsOfDriver([mReadCache |-> mResultReadCache], c)

---------------------------------------------------------------------------
(* a diagnostics pass meeting a failing transfer *)

\* a per-channel pass has ended, by return or by exception, and one of its
\* transfers did not succeed
ChannelPassFailed ==
  /\ pc = "returned"
  /\ lastOp.op = "diagnose"
  /\ lastOp.arg \in {cAuto, cOffPulse, cOnPulse}
  /\ \E k \in DOMAIN xfers : ~Succeeded(xfers[k].x)

\* the pass has read register 9 in a transfer that succeeded
Register9Obtained ==
  \E k \in DOMAIN xfers :
    xfers[k].kind = "read" /\ xfers[k].x.cmd = cCommand9 /\ Succeeded(xfers[k].x)

\* C39: after perform(Auto), perform(OffPulse) or perform(OnPulse) in which a
\* transfer failed, the snapshot answers "not applicable" for every channel
\* 1..8 whose diagnostic bits of register 9 were not obtained by a successful
\* transfer of that pass.
C39_NoCodeFromUnreadRegister9 ==
  (ChannelPassFailed /\ ~Register9Obtained) =>
    \A c \in 1..cChannelCount :
      getChannelDiagnostics(mTestPerformed, mChannelsDiagnosed, mResultReadCache, c) = << >>

====
